---- MODULE Spec2Model ----
(***************************************************************************)
(* The bunyan CLI of lib/bunyan.mjs: the chronological merge of several    *)
(* log files (streams, gotRecord, emitNextRecord), the line handler        *)
(* (handleLogLine, isValidRecord, filterRecord), the chunk-to-line         *)
(* reassembly of processFile / processStdin, the run's completion          *)
(* (asyncForEach, cleanupAndExit), its end by a signal, an error of stdout *)
(* or the pager, and what emitRecord does to the record it renders.        *)
(***************************************************************************)
EXTENDS Integers, Sequences, FiniteSets, TLC

\* ---------------------------------------------------------------- bounds
NumFiles == 2
MaxLines == 3
MaxTime == 2
MaxChunk == 2
MaxText == 4
MaxDefects == 1
MaxStdin == 3
MaxStreams == 2
MaxWrites == 4
MaxLimit == 3

\* ------------------------------------------------------------- constants
\* `undefined` as the value of minfile (emitNextRecord) before any candidate
NoFile == 0
\* `null` and `undefined` as field values; every other value is a number >= 0
NULL == -1
ABSENT == -2
INFO == 30
WARN == 40
ERROR == 50
\* the output modes (-o, -j, -0)
OM_LONG == 1
OM_JSON == 2
OM_INSPECT == 3
OM_SIMPLE == 4
OM_SHORT == 5
OM_BUNYAN == 6
OutputModes == {OM_LONG, OM_JSON, OM_INSPECT, OM_SIMPLE, OM_SHORT, OM_BUNYAN}

Files == 1..NumFiles

VARIABLES
  streams,    \* the `streams` table of the run (one entry per file argument)
  sink,       \* the strings written to stdout, in order
  status,     \* "running" | "crashed" | "exited"
  exiting,    \* the `exiting` flag set by cleanupAndExit
  completed,  \* asyncForEach's count of finished files
  retval,     \* main's count of failed files, the exit status
  leftover,   \* per file: whether the partial line kept between chunks is non-empty
  nlines,     \* lines read so far, over all files (bounds the input)
  opts,       \* the parsed command line
  surv,       \* history: per file, the times of the records handed to gotRecord
  ran,        \* history: whether the last handler entered emitNextRecord
  blocked,    \* history: whether a record was popped while a source was blocking
  failed,     \* history: the files whose 'error' handler has run
  exitCode,   \* the `code` of cleanupAndExit, the exit status once exited; NULL before
  pager,      \* whether output goes through a pager (`pager` is not null)
  \* one source's text, for the reassembly of lines from chunks
  whole,      \* the source's text, a sequence of characters
  rest,       \* the part not yet delivered
  lo,         \* `leftover`: the partial line kept between chunks
  handed,     \* the lines given to handleLogLine, in order
  ended,      \* whether the 'end' handler has run
  \* one line given to handleLogLine
  lnLine,     \* the line
  lnCls,      \* how handleLogLine classified it
  lnDone,     \* whether handleLogLine has run
  \* the stdin run
  input,      \* history: the lines of the chunks delivered so far
  inLeft,     \* whether processStdin's `leftover` is non-empty
  \* the file run with a pager, signals and errors of stdout
  destroyed,  \* the files whose stream was destroyed (stream.destroy())
  signalled,  \* history: whether a signal handler has run
  sinkErrAt,  \* history: Len(sink) when stdout first reported an error; NULL before
  arr,        \* history: per file, the lines given to handleLogLine that are to
              \* be written (records that pass the filter; other lines unless strict)
  lastCls,    \* history: how the last handler's last line was classified
  \* one record given to emitRecord
  rdRec,      \* the record object `rec`: its keys and their values
  rdObjs,     \* the objects the record referred to when it was parsed
  rdOrig,     \* history: rdRec and rdObjs as parsed
  rdDone,     \* whether emitRecord has returned
  rdOut,      \* the parts of the string that emitRecord formatted
  \* the command line
  argConds,   \* the -c arguments, in order
  argExec,    \* "vm" when BUNYAN_EXEC=vm, else "func"
  argDone,    \* whether parseArgv has returned or raised
  \* a Logger and a child of it
  lgLevel,    \* per logger: `_level`; NULL for the child before it is created
  lgArr,      \* per logger: which array its `streams` is
  lgStreams,  \* per array: the stream entries (level, name), in order
  lgChild,    \* "none", or how the child was created: "simple" | "full"
  lgHave,     \* per logger: `haveNonRawStreams`: "undefined", "true" or "false"
  lgFields,   \* per logger: which object its `fields` is
  lgObjs,     \* per object: its keys and their values
  lgSer,      \* per logger: its serializers: field name -> "ok" | "throws"
  lgOut,      \* what the last log call did
  \* a RingBuffer
  rbLimit,    \* `limit`
  rbRecords,  \* `records`
  rbWritable, \* `writable`
  rbHist      \* history: every record given to a write that returned

fileVars == <<streams, sink, status, exiting, completed, retval, leftover, nlines,
              opts, surv, ran, blocked, failed, exitCode, pager>>
textVars == <<whole, rest, lo, handed, ended>>
lineVars == <<lnLine, lnCls, lnDone>>
stdinVars == <<input, inLeft>>
exitVars == <<destroyed, signalled, sinkErrAt, arr, lastCls>>
renderVars == <<rdRec, rdObjs, rdOrig, rdDone, rdOut>>
argvVars == <<argConds, argExec, argDone>>
logVars == <<lgLevel, lgArr, lgStreams, lgChild, lgHave, lgFields, lgObjs, lgSer, lgOut>>
ringVars == <<rbLimit, rbRecords, rbWritable, rbHist>>
apiVars == <<argvVars, logVars, ringVars>>
vars == <<fileVars, textVars, lineVars, stdinVars, exitVars, renderVars, apiVars>>
\* what the file run, the reassembly, the single line and the stdin run leave alone
OutsideFile == <<textVars, lineVars, stdinVars, exitVars, renderVars, apiVars>>
OutsideText == <<fileVars, lineVars, stdinVars, exitVars, renderVars, apiVars>>
OutsideLine == <<completed, retval, leftover, nlines, opts, failed, textVars,
                 stdinVars, exitVars, renderVars, apiVars>>
OutsideStdin == <<completed, retval, leftover, nlines, opts, failed, textVars,
                  lineVars, exitVars, renderVars, apiVars>>
OutsideExit == <<textVars, lineVars, stdinVars, renderVars, apiVars>>
OutsideRender == <<streams, status, exiting, completed, retval, leftover, nlines, opts,
                   surv, ran, blocked, failed, exitCode, pager, textVars, lineVars,
                   stdinVars,
                   exitVars, apiVars>>
OutsideArgv == <<completed, retval, leftover, nlines, failed, textVars, stdinVars,
                 exitVars, renderVars, logVars, ringVars>>
OutsideLog == <<fileVars, textVars, lineVars, stdinVars, exitVars, renderVars,
                argvVars, ringVars>>
OutsideRing == <<fileVars, textVars, lineVars, stdinVars, exitVars, renderVars,
                 argvVars, logVars>>

\* ------------------------------------------------------------ log lines
(* A line is described by what handleLogLine looks at:                     *)
(*   lead    whether the line starts with a space                          *)
(*   body    its first character after the leading spaces: "{", "x" for    *)
(*           any other character, "" when there is none                    *)
(*   parses  whether JSON.parse accepts the line (it skips leading spaces) *)
(*   rec     the parsed object: a field is ABSENT, NULL, or a value;       *)
(*           `extra` is a field outside the core fields, read by a -c      *)
(*           condition                                                     *)
CoreFields == {"v", "level", "name", "hostname", "pid", "time", "msg"}

MkRec(lvl, t, m, x) ==
  [v |-> 0, level |-> lvl, name |-> 1, hostname |-> 1, pid |-> 1,
   time |-> t, msg |-> m, extra |-> x]

NoRec == MkRec(ABSENT, ABSENT, ABSENT, ABSENT)

RecLine(lvl, t, m, x) ==
  [lead |-> FALSE, body |-> "{", parses |-> TRUE, rec |-> MkRec(lvl, t, m, x)]

TextLine(m) ==
  [lead |-> FALSE, body |-> "x", parses |-> FALSE, rec |-> [NoRec EXCEPT !.msg = m]]

\* Mutant of FirstChar: leading spaces are skipped before the test for "{".
FirstCharTrimmed(line) == line.body

\* line[0]; "" for the empty line (`!line`)
FirstChar(line) == IF line.lead THEN " " ELSE line.body

\* ---------------------------------------------------------- isValidRecord
IsNullish(x) == x = NULL \/ x = ABSENT

\* Mutant of isValidRecord: the test of msg is missing.
isValidRecordNoMsg(rec) ==
  ~ (\/ IsNullish(rec.v)
     \/ IsNullish(rec.level)
     \/ IsNullish(rec.name)
     \/ IsNullish(rec.hostname)
     \/ IsNullish(rec.pid)
     \/ IsNullish(rec.time))

isValidRecord(rec) ==
  ~ (\/ IsNullish(rec.v)
     \/ IsNullish(rec.level)
     \/ IsNullish(rec.name)
     \/ IsNullish(rec.hostname)
     \/ IsNullish(rec.pid)
     \/ IsNullish(rec.time)
     \/ IsNullish(rec.msg))

\* ----------------------------------------------------------- filterRecord
(* A -c condition is user code run against the record.  Four conditions   *)
(* stand for it: a constant one, a comparison on level, one that is       *)
(* falsy, and one that dereferences a field the record may lack (it       *)
(* raises when `extra` is null or undefined).                             *)
Conds == {"always", "never", "isError", "extra"}

EvalCond(c, rec) ==
  CASE c = "always" -> "true"
    [] c = "never" -> "false"
    [] c = "isError" -> IF rec.level >= ERROR THEN "true" ELSE "false"
    [] c = "extra" -> IF IsNullish(rec.extra) THEN "throw"
                      ELSE IF rec.extra = 1 THEN "true" ELSE "false"

RECURSIVE RunConds(_, _, _)
RunConds(conds, i, rec) ==
  IF i > Len(conds) THEN "keep"
  ELSE LET pass == EvalCond(conds[i], rec)
       IN  IF pass = "throw" THEN "throw"
           ELSE IF pass = "false" THEN "drop"
           ELSE RunConds(conds, i + 1, rec)

\* Mutant of filterRecord: the loop stops after the first condition.
filterRecordFirstCond(rec, o) ==
  IF o.level # NULL /\ o.level # 0 /\ rec.level < o.level THEN "drop"
  ELSE IF o.condFuncs # <<>> THEN RunConds(SubSeq(o.condFuncs, 1, 1), 1, rec)
  ELSE IF o.condVm # <<>> THEN RunConds(SubSeq(o.condVm, 1, 1), 1, rec)
  ELSE "keep"

\* "keep" (true), "drop" (false) or "throw" (the condition's exception escapes)
filterRecord(rec, o) ==
  IF o.level # NULL /\ o.level # 0 /\ rec.level < o.level THEN "drop"
  ELSE IF o.condFuncs # <<>> THEN RunConds(o.condFuncs, 1, rec)
  ELSE IF o.condVm # <<>> THEN RunConds(o.condVm, 1, rec)
  ELSE "keep"

\* ------------------------------------------------------------- parseArgv
\* the record that parseArgv tries a vm condition on: the core fields only
minValidRecord == MkRec(INFO, 1, 1, ABSENT)

\* a -c argument: a condition, or text that does not compile
ArgConds == Conds \cup {"illegal"}

\* The -c arguments of parseArgv.  Text that does not compile raises in
\* `vm.createScript` and in `new Function`.  With BUNYAN_EXEC=vm each script
\* is run on minValidRecord and an exception there raises; the functions of
\* the default mode are compiled and not run.
parseArgv(conds, exec) ==
  IF \E i \in 1..Len(conds) : conds[i] = "illegal"
  THEN [error |-> TRUE, condFuncs |-> <<>>, condVm |-> <<>>]
  ELSE IF exec = "vm"
       THEN IF \E i \in 1..Len(conds) : EvalCond(conds[i], minValidRecord) = "throw"
            THEN [error |-> TRUE, condFuncs |-> <<>>, condVm |-> <<>>]
            ELSE [error |-> FALSE, condFuncs |-> <<>>, condVm |-> conds]
  ELSE [error |-> FALSE, condFuncs |-> conds, condVm |-> <<>>]

\* ------------------------------------------------------------------ emit
(* The pipeline state threaded through the handlers:                      *)
(*   streams  the `streams` table: per file opened (stream !== null),     *)
(*            records, done, paused                                       *)
(*   sink     what stdout.write was given, in order                       *)
(*   status   "running", or "crashed" once an exception reached the       *)
(*            uncaughtException handler (process.exit(1))                 *)
(*   exiting  the `exiting` flag                                          *)
(*   surv     history: per file, the times handed to gotRecord            *)
(*   ran      whether emitNextRecord was entered by the current handler   *)
(*   cls      how handleLogLine classified the last line                  *)
(*   pager    whether `pager` is set                                      *)
(*   code     the exit code given to cleanupAndExit or process.exit       *)
(*   blocked  history: whether emitNextRecord popped a record while some  *)
(*            source was blocking                                          *)
emit(s, st) == [st EXCEPT !.sink = Append(@, s)]

\* Every output mode writes one string: the rendering of the record
\* (kind "rec") or, in the long, short and simple modes, the line itself
\* and a newline (kind "raw") when the record is not a valid one.
emitRecord(rec, line, o, st) ==
  IF o.outputMode \in {OM_SHORT, OM_LONG, OM_SIMPLE} /\ ~isValidRecord(rec)
  THEN emit([kind |-> "raw", line |-> line], st)
  ELSE emit([kind |-> "rec", line |-> line], st)

\* ---------------------------------------------------------- emitNextRecord
(* An entry of the `streams` table, once processFile has opened the stream *)
(* and attached its 'data' handler:                                        *)
(*   opened   stream !== null                                              *)
(*   records, done, paused   the entry's fields; `paused` is the flag that *)
(*            emitNextRecord keeps                                         *)
(*   flowing  the state of the stream itself: pause() stops its 'data' and *)
(*            'end' events, resume() lets them flow again                  *)
(*   noop     history: a pause() was issued to the stream while it was     *)
(*            paused, or a resume() while it was flowing                   *)
(*   last     history: the last call issued, "pause", "resume" or "none"   *)
OpenedStreams ==
  [f \in Files |->
     [opened |-> TRUE, records |-> <<>>, done |-> FALSE, paused |-> FALSE,
      flowing |-> TRUE, noop |-> FALSE, last |-> "none"]]

\* stream.pause()
Pause(s) == [s EXCEPT !.flowing = FALSE, !.noop = @ \/ ~s.flowing, !.last = "pause"]

\* stream.resume()
Resume(s) == [s EXCEPT !.flowing = TRUE, !.noop = @ \/ s.flowing, !.last = "resume"]

\* Mutant of PauseResume: the `paused` flag is not looked at.
PauseResumeAlways(ss) ==
  [f \in Files |->
     IF ~ss[f].opened \/ ss[f].done THEN ss[f]
     ELSE IF Len(ss[f].records) > 0
          THEN Pause([ss[f] EXCEPT !.paused = TRUE])
     ELSE Resume([ss[f] EXCEPT !.paused = FALSE])]

\* a source that the merge has to wait for: not opened yet, or still
\* delivering with no pending entry
Blocking(s) == ~s.opened \/ (~s.done /\ Len(s.records) = 0)

\* Mutant of ScanStreams: a blocking stream is passed over.
RECURSIVE ScanStreamsPassing(_, _, _)
ScanStreamsPassing(ss, i, minfile) ==
  IF i > NumFiles THEN [ready |-> TRUE, minfile |-> minfile]
  ELSE IF /\ Len(ss[i].records) > 0
          /\ (minfile = NoFile
               \/ ss[minfile].records[1].time > ss[i].records[1].time)
       THEN ScanStreamsPassing(ss, i + 1, i)
  ELSE ScanStreamsPassing(ss, i + 1, minfile)

\* Mutant of ScanStreams: the comparison of the two head times is reversed,
\* so the latest head wins.
RECURSIVE ScanStreamsLatest(_, _, _)
ScanStreamsLatest(ss, i, minfile) ==
  IF i > NumFiles THEN [ready |-> TRUE, minfile |-> minfile]
  ELSE IF ~ss[i].opened \/ (~ss[i].done /\ Len(ss[i].records) = 0)
       THEN [ready |-> FALSE, minfile |-> minfile]
  ELSE IF /\ Len(ss[i].records) > 0
          /\ (minfile = NoFile
               \/ ss[minfile].records[1].time < ss[i].records[1].time)
       THEN ScanStreamsLatest(ss, i + 1, i)
  ELSE ScanStreamsLatest(ss, i + 1, minfile)

\* The first loop: `for (ofile in streams)` up to the first blocking stream.
RECURSIVE ScanStreams(_, _, _)
ScanStreams(ss, i, minfile) ==
  IF i > NumFiles THEN [ready |-> TRUE, minfile |-> minfile]
  ELSE IF ~ss[i].opened \/ (~ss[i].done /\ Len(ss[i].records) = 0)
       THEN [ready |-> FALSE, minfile |-> minfile]
  ELSE IF /\ Len(ss[i].records) > 0
          /\ (minfile = NoFile
               \/ ss[minfile].records[1].time > ss[i].records[1].time)
       THEN ScanStreams(ss, i + 1, i)
  ELSE ScanStreams(ss, i + 1, minfile)

\* Mutant of PauseResume: a drained stream is not resumed and keeps its flag.
PauseResumeStale(ss) ==
  [f \in Files |->
     IF ~ss[f].opened \/ ss[f].done THEN ss[f]
     ELSE IF Len(ss[f].records) > 0
          THEN (IF ~ss[f].paused THEN Pause([ss[f] EXCEPT !.paused = TRUE]) ELSE ss[f])
     ELSE ss[f]]

\* Mutant of PauseResume: the flag is set but the stream is not paused.
PauseResumeFlagOnly(ss) ==
  [f \in Files |->
     IF ~ss[f].opened \/ ss[f].done THEN ss[f]
     ELSE IF Len(ss[f].records) > 0
          THEN (IF ~ss[f].paused THEN [ss[f] EXCEPT !.paused = TRUE] ELSE ss[f])
     ELSE IF ss[f].paused THEN [ss[f] EXCEPT !.paused = FALSE]
     ELSE ss[f]]

\* The second loop: pause the streams that hold records, resume the drained.
PauseResume(ss) ==
  [f \in Files |->
     IF ~ss[f].opened \/ ss[f].done THEN ss[f]
     ELSE IF Len(ss[f].records) > 0
          THEN (IF ~ss[f].paused THEN Pause([ss[f] EXCEPT !.paused = TRUE]) ELSE ss[f])
     ELSE IF ss[f].paused THEN Resume([ss[f] EXCEPT !.paused = FALSE])
     ELSE ss[f]]

\* Mutant of EmitLoop: one record is written and the function returns.
EmitLoopOnce(o, st) ==
  LET scan == ScanStreams(st.streams, 1, NoFile)
  IN  IF ~scan.ready \/ scan.minfile = NoFile
      THEN [st EXCEPT !.streams = PauseResume(st.streams)]
      ELSE LET rec == st.streams[scan.minfile].records[1]
               st1 == [st EXCEPT !.streams[scan.minfile].records = Tail(@)]
               st2 == emitRecord(rec.rec, rec.line, o, st1)
           IN  [st2 EXCEPT !.streams = PauseResume(st2.streams)]

RECURSIVE EmitLoop(_, _)
EmitLoop(o, st) ==
  LET scan == ScanStreams(st.streams, 1, NoFile)
  IN  IF ~scan.ready \/ scan.minfile = NoFile
      THEN [st EXCEPT !.streams = PauseResume(st.streams)]
      ELSE LET rec == st.streams[scan.minfile].records[1]
               st1 == [st EXCEPT !.streams[scan.minfile].records = Tail(@),
                                 !.blocked = @ \/ \E f \in Files : Blocking(st.streams[f])]
           IN  EmitLoop(o, emitRecord(rec.rec, rec.line, o, st1))

emitNextRecord(o, st) == EmitLoop(o, [st EXCEPT !.ran = TRUE])

\* Mutant of gotRecord: the entry is put at the head of the queue.
gotRecordUnshift(file, line, rec, o, st) ==
  LET entry == [line |-> line, rec |-> rec, time |-> rec.time]
  IN  emitNextRecord(o, [st EXCEPT !.streams[file].records = <<entry>> \o @,
                                   !.surv[file] = Append(@, rec.time)])

\* gotRecord(file, line, rec, opts, stylize): `records.push(...)`, emitNextRecord
gotRecord(file, line, rec, o, st) ==
  LET entry == [line |-> line, rec |-> rec, time |-> rec.time]
  IN  emitNextRecord(o, [st EXCEPT !.streams[file].records = Append(@, entry),
                                   !.surv[file] = Append(@, rec.time)])

\* ----------------------------------------------------------- handleLogLine
\* file = NoFile is the stdin case (file === null)
\* st.cls records the branch taken: "passthrough" (not JSON), "invalid"
\* (JSON.parse threw, or not a valid record), "valid".  An exception of
\* filterRecord is not caught here or in any caller: it reaches the
\* uncaughtException handler, which ends the process.
\* Mutant of EmitLine: the line is never written.
EmitLineDropped(line, o, st) == st

\* Mutant of EmitLine: the line is written in strict mode too.
EmitLineAlways(line, o, st) == emit([kind |-> "raw", line |-> line], st)

\* `if (!opts.strict) emit(line + '\n')`
EmitLine(line, o, st) ==
  IF ~o.strict THEN emit([kind |-> "raw", line |-> line], st) ELSE st

\* Mutant of handleLogLine: an exception of filterRecord is caught and the
\* record dropped.
handleLogLineCatch(file, line, o, st) ==
  IF st.exiting THEN st
  ELSE IF FirstChar(line) = "" THEN EmitLine(line, o, [st EXCEPT !.cls = "passthrough"])
  ELSE IF FirstChar(line) # "{" THEN EmitLine(line, o, [st EXCEPT !.cls = "passthrough"])
  ELSE IF ~line.parses THEN EmitLine(line, o, [st EXCEPT !.cls = "invalid"])
  ELSE IF ~isValidRecord(line.rec) THEN EmitLine(line, o, [st EXCEPT !.cls = "invalid"])
  ELSE LET keep == filterRecord(line.rec, o)
           st1 == [st EXCEPT !.cls = "valid"]
       IN  IF keep = "throw" THEN st1
           ELSE IF keep = "drop" THEN st1
           ELSE IF file = NoFile THEN emitRecord(line.rec, line, o, st1)
           ELSE gotRecord(file, line, line.rec, o, st1)

\* Mutant of handleLogLine: a record of stdin is queued like a record of the
\* first file.
handleLogLineQueued(file, line, o, st) ==
  IF st.exiting THEN st
  ELSE IF FirstChar(line) = "" THEN EmitLine(line, o, [st EXCEPT !.cls = "passthrough"])
  ELSE IF FirstChar(line) # "{" THEN EmitLine(line, o, [st EXCEPT !.cls = "passthrough"])
  ELSE IF ~line.parses THEN EmitLine(line, o, [st EXCEPT !.cls = "invalid"])
  ELSE IF ~isValidRecord(line.rec) THEN EmitLine(line, o, [st EXCEPT !.cls = "invalid"])
  ELSE LET keep == filterRecord(line.rec, o)
           st1 == [st EXCEPT !.cls = "valid"]
       IN  IF keep = "throw" THEN [st1 EXCEPT !.status = "crashed", !.code = 1]
           ELSE IF keep = "drop" THEN st1
           ELSE gotRecord(IF file = NoFile THEN 1 ELSE file, line, line.rec, o, st1)

\* Mutant of handleLogLine: the test of `exiting` is missing.
handleLogLineNoGuard(file, line, o, st) ==
  IF FirstChar(line) = "" THEN EmitLine(line, o, [st EXCEPT !.cls = "passthrough"])
  ELSE IF FirstChar(line) # "{" THEN EmitLine(line, o, [st EXCEPT !.cls = "passthrough"])
  ELSE IF ~line.parses THEN EmitLine(line, o, [st EXCEPT !.cls = "invalid"])
  ELSE IF ~isValidRecord(line.rec) THEN EmitLine(line, o, [st EXCEPT !.cls = "invalid"])
  ELSE LET keep == filterRecord(line.rec, o)
           st1 == [st EXCEPT !.cls = "valid"]
       IN  IF keep = "throw" THEN [st1 EXCEPT !.status = "crashed", !.code = 1]
           ELSE IF keep = "drop" THEN st1
           ELSE IF file = NoFile THEN emitRecord(line.rec, line, o, st1)
           ELSE gotRecord(file, line, line.rec, o, st1)

handleLogLine(file, line, o, st) ==
  IF st.exiting THEN st
  ELSE IF FirstChar(line) = "" THEN EmitLine(line, o, [st EXCEPT !.cls = "passthrough"])
  ELSE IF FirstChar(line) # "{" THEN EmitLine(line, o, [st EXCEPT !.cls = "passthrough"])
  ELSE IF ~line.parses THEN EmitLine(line, o, [st EXCEPT !.cls = "invalid"])
  ELSE IF ~isValidRecord(line.rec) THEN EmitLine(line, o, [st EXCEPT !.cls = "invalid"])
  ELSE LET keep == filterRecord(line.rec, o)
           st1 == [st EXCEPT !.cls = "valid"]
       IN  IF keep = "throw" THEN [st1 EXCEPT !.status = "crashed", !.code = 1]
           ELSE IF keep = "drop" THEN st1
           ELSE IF file = NoFile THEN emitRecord(line.rec, line, o, st1)
           ELSE gotRecord(file, line, line.rec, o, st1)

\* The handlers' loops over the lines of one chunk; an exception ends them.
RECURSIVE HandleLines(_, _, _, _)
HandleLines(file, lines, o, st) ==
  IF lines = <<>> \/ st.status # "running" THEN st
  ELSE HandleLines(file, Tail(lines), o, handleLogLine(file, Head(lines), o, st))

\* ------------------------------------------------------------ the file run
\* The lines file f can hold: records stamped 1..MaxTime that pass the
\* filter, a record below the level threshold, and a line of plain text;
\* msg names the file.
FileLines(f) ==
  {RecLine(ERROR, t, f, 1) : t \in 1..MaxTime} \cup {RecLine(INFO, 1, f, 1), TextLine(f)}

SeqsOf(S, n) == UNION {[1..k -> S] : k \in 1..n}

St == [streams |-> streams, sink |-> sink, status |-> status, exiting |-> exiting,
       surv |-> surv, ran |-> FALSE, cls |-> "none", pager |-> pager, code |-> exitCode,
       blocked |-> blocked]

\* What a handler leaves behind.
Commit(st) ==
  /\ streams' = st.streams
  /\ sink' = st.sink
  /\ status' = st.status
  /\ exiting' = st.exiting
  /\ surv' = st.surv
  /\ ran' = st.ran
  /\ blocked' = st.blocked
  /\ pager' = st.pager
  /\ exitCode' = st.code

\* no text is being reassembled
TextIdle ==
  whole = <<>> /\ rest = <<>> /\ lo = <<>> /\ handed = <<>> /\ ended = FALSE

LineIdle == lnLine = TextLine(0) /\ lnCls = "none" /\ lnDone = FALSE

StdinIdle == input = <<>> /\ inLeft = FALSE

RenderIdle ==
  rdRec = <<>> /\ rdObjs = <<>> /\ rdOrig = <<>> /\ rdDone = FALSE /\ rdOut = <<>>

ArgvIdle == argConds = <<>> /\ argExec = "func" /\ argDone = TRUE

LogIdle ==
  /\ lgLevel = <<>> /\ lgArr = <<>> /\ lgStreams = <<>> /\ lgChild = "none"
  /\ lgHave = <<>> /\ lgFields = <<>> /\ lgObjs = <<>> /\ lgSer = <<>> /\ lgOut = <<>>

RingIdle == rbLimit = 0 /\ rbRecords = <<>> /\ rbWritable = FALSE /\ rbHist = <<>>

ExitIdle ==
  /\ destroyed = {} /\ signalled = FALSE /\ sinkErrAt = NULL
  /\ arr = [f \in Files |-> <<>>] /\ lastCls = "none"

\* main, lines 2489-2494 and the synchronous part of processFile: every file
\* is registered and its stream opened before the first I/O event.
Init ==
  /\ ArgvIdle /\ LogIdle /\ RingIdle
  /\ TextIdle /\ LineIdle /\ StdinIdle /\ ExitIdle /\ RenderIdle
  /\ failed = {} /\ exitCode = NULL /\ pager = FALSE
  /\ streams = OpenedStreams
  /\ sink = <<>>
  /\ status = "running"
  /\ exiting = FALSE
  /\ completed = 0
  /\ retval = 0
  /\ leftover = [f \in Files |-> FALSE]
  /\ nlines = 0
  /\ opts = [level |-> WARN, strict |-> TRUE, condFuncs |-> <<>>, condVm |-> <<>>,
             outputMode |-> OM_LONG]
  /\ surv = [f \in Files |-> <<>>]
  /\ ran = FALSE /\ blocked = FALSE

\* the exit status of process.exit(code): the low 8 bits
ExitWidth == 256

\* process.exit(code)
Exit(code, st) == [st EXCEPT !.status = "exited", !.code = code % ExitWidth]

\* Mutant of cleanupAndExit: the process is never ended here.
cleanupAndExitSoft(code, st) ==
  IF st.exiting THEN st ELSE [st EXCEPT !.exiting = TRUE, !.code = code]

\* With a pager, stdout.end() and the process waits for the pager's 'exit'
\* event, keeping `code`; without, process.exit(code).
cleanupAndExit(code, st) ==
  IF st.exiting THEN st
  ELSE IF st.pager THEN [st EXCEPT !.exiting = TRUE, !.code = code]
  ELSE Exit(code, [st EXCEPT !.exiting = TRUE])

\* Mutant of FileCallback: a failure is not counted.
FileCallbackNoCount(err, st) ==
  /\ retval' = retval
  /\ completed' = completed + 1
  /\ Commit(IF completed + 1 = NumFiles THEN cleanupAndExit(retval', st) ELSE st)

\* processFile's callback in main, asyncForEach's iterator callback and its
\* final callback: count the failure, count the file, exit after the last.
FileCallback(err, st) ==
  /\ retval' = (IF err THEN retval + 1 ELSE retval)
  /\ completed' = completed + 1
  /\ Commit(IF completed + 1 = NumFiles THEN cleanupAndExit(retval', st) ELSE st)

Live(f) == status = "running" /\ ~streams[f].done

\* stream.on('data') with a chunk that holds no line terminator
DataPartial(f) ==
  /\ Live(f) /\ streams[f].flowing /\ ~exiting
  /\ nlines + (IF leftover[f] THEN 0 ELSE 1) <= MaxLines
  /\ leftover' = [leftover EXCEPT ![f] = TRUE]
  /\ nlines' = nlines + (IF leftover[f] THEN 0 ELSE 1)
  /\ ran' = FALSE
  /\ UNCHANGED <<blocked, streams, sink, status, exiting, completed, retval, opts, surv,
                 failed, exitCode, pager>>
  /\ UNCHANGED OutsideFile

\* stream.on('data') with a chunk that completes the lines `lines`; `tail`
\* tells whether a non-empty partial line follows the last terminator.
Data(f) ==
  /\ Live(f) /\ streams[f].flowing /\ ~exiting
  /\ \E lines \in SeqsOf(FileLines(f), MaxChunk), tail \in BOOLEAN :
       /\ LET n == Len(lines) + (IF tail THEN 1 ELSE 0) - (IF leftover[f] THEN 1 ELSE 0)
          IN  nlines + n <= MaxLines /\ nlines' = nlines + n
       /\ Commit(HandleLines(f, lines, opts, St))
       /\ leftover' = [leftover EXCEPT ![f] = tail]
  /\ UNCHANGED <<completed, retval, opts, failed>>
  /\ UNCHANGED OutsideFile

\* stream.on('end'): the partial line, if any, is the file's last line
End(f) ==
  /\ Live(f) /\ streams[f].flowing
  /\ LET st0 == [St EXCEPT !.streams[f].done = TRUE]
     IN  \E last \in FileLines(f) :
           LET st1 == IF leftover[f] THEN handleLogLine(f, last, opts, st0)
                      ELSE emitNextRecord(opts, st0)
           IN  IF st1.status = "running"
               THEN FileCallback(FALSE, st1)
               ELSE Commit(st1) /\ UNCHANGED <<completed, retval>>
  /\ leftover' = [leftover EXCEPT ![f] = FALSE]
  /\ UNCHANGED <<nlines, opts, failed>>
  /\ UNCHANGED OutsideFile

\* stream.on('error'): the source is marked done and reported
Error(f) ==
  /\ Live(f)
  /\ FileCallback(TRUE, [St EXCEPT !.streams[f].done = TRUE])
  /\ failed' = failed \cup {f}
  /\ UNCHANGED <<leftover, nlines, opts>>
  /\ UNCHANGED OutsideFile

\* An 'error' of the file's read stream when the file is a .gz file: the
\* handler above listens on the gunzip stream that the read stream is piped
\* into, the read stream itself has no 'error' listener, so the event is
\* thrown and reaches the uncaughtException handler: process.exit(1).
ErrorUnhandled(f) ==
  /\ Live(f)
  /\ Commit([St EXCEPT !.status = "crashed", !.code = 1])
  /\ UNCHANGED <<completed, retval, leftover, nlines, opts, failed>>
  /\ UNCHANGED OutsideFile

Next ==
  \E f \in Files : DataPartial(f) \/ Data(f) \/ End(f) \/ Error(f) \/ ErrorUnhandled(f)

Spec == Init /\ [][Next]_vars

\* ------------------------------- the file run: pager, signals, stdout errors
(* The run of main with file arguments, with or without a pager.  After    *)
(* cleanupAndExit with a pager the process lives on until the pager's      *)
(* 'exit' event, and the streams go on delivering their events.  Every     *)
(* record is stamped 1.                                                    *)
ExitLines(f) == {RecLine(ERROR, 1, f, 1), TextLine(f)}

InitExit ==
  /\ ArgvIdle /\ LogIdle /\ RingIdle
  /\ TextIdle /\ LineIdle /\ StdinIdle /\ ExitIdle /\ RenderIdle
  /\ streams = OpenedStreams
  /\ sink = <<>> /\ status = "running" /\ exiting = FALSE
  /\ completed = 0 /\ retval = 0
  /\ leftover = [f \in Files |-> FALSE] /\ nlines = 0
  /\ surv = [f \in Files |-> <<>>] /\ ran = FALSE /\ blocked = FALSE
  /\ failed = {} /\ exitCode = NULL
  /\ pager \in BOOLEAN
  /\ opts = [level |-> WARN, strict |-> TRUE, condFuncs |-> <<>>, condVm |-> <<>>,
             outputMode |-> OM_LONG]

\* whether the line is one to write: a valid record that passes the filter,
\* or any other line when not in strict mode
ToWrite(line, o) ==
  IF FirstChar(line) = "{" /\ line.parses /\ isValidRecord(line.rec)
  THEN filterRecord(line.rec, o) = "keep"
  ELSE ~o.strict

\* the stream of f can still deliver an event
Alive(f) == status = "running" /\ ~streams[f].done /\ f \notin destroyed

\* stream.on('data'): while exiting the stream is destroyed; otherwise the
\* chunk completes the lines `lines` (none when it holds no terminator) and
\* `tail` tells whether a non-empty partial line is left over
ExitData(f) ==
  /\ Alive(f) /\ streams[f].flowing
  /\ IF exiting
     THEN /\ destroyed' = destroyed \cup {f}
          /\ lastCls' = "none"
          /\ ran' = FALSE
          /\ UNCHANGED <<blocked, streams, sink, status, exiting, surv, exitCode, pager,
                         leftover, nlines, arr>>
     ELSE \E lines \in SeqsOf(ExitLines(f), MaxChunk) \cup {<<>>}, tail \in BOOLEAN :
            /\ lines = <<>> => (tail /\ ~leftover[f])
            /\ LET n == Len(lines) + (IF tail THEN 1 ELSE 0) - (IF leftover[f] THEN 1 ELSE 0)
               IN  nlines + n <= MaxLines /\ nlines' = nlines + n
            /\ LET st1 == HandleLines(f, lines, opts, St)
               IN  Commit(st1) /\ lastCls' = st1.cls
            /\ leftover' = [leftover EXCEPT ![f] = tail \/ (lines = <<>> /\ @)]
            /\ arr' = [arr EXCEPT ![f] = @ \o SelectSeq(lines, LAMBDA l : ToWrite(l, opts))]
            /\ UNCHANGED destroyed
  /\ UNCHANGED <<completed, retval, opts, failed, signalled, sinkErrAt>>
  /\ UNCHANGED OutsideExit

\* stream.on('end')
ExitEnd(f) ==
  /\ Alive(f) /\ streams[f].flowing
  /\ LET st0 == [St EXCEPT !.streams[f].done = TRUE]
     IN  \E last \in ExitLines(f) :
           LET st1 == IF leftover[f] THEN handleLogLine(f, last, opts, st0)
                      ELSE emitNextRecord(opts, st0)
           IN  /\ IF st1.status = "running"
                  THEN FileCallback(FALSE, st1)
                  ELSE Commit(st1) /\ UNCHANGED <<completed, retval>>
               /\ lastCls' = st1.cls
               /\ arr' = [arr EXCEPT ![f] = IF leftover[f] /\ ToWrite(last, opts)
                                             THEN Append(@, last) ELSE @]
  /\ leftover' = [leftover EXCEPT ![f] = FALSE]
  /\ UNCHANGED <<nlines, opts, failed, destroyed, signalled, sinkErrAt>>
  /\ UNCHANGED OutsideExit

\* stream.on('error')
ExitError(f) ==
  /\ Alive(f)
  /\ FileCallback(TRUE, [St EXCEPT !.streams[f].done = TRUE])
  /\ failed' = failed \cup {f}
  /\ lastCls' = "none"
  /\ UNCHANGED <<leftover, nlines, opts, destroyed, signalled, sinkErrAt, arr>>
  /\ UNCHANGED OutsideExit

\* process.on('SIGINT' | 'SIGQUIT' | 'SIGTERM' | 'SIGHUP')
Signal ==
  /\ status = "running"
  /\ Commit(cleanupAndExit(1, St))
  /\ signalled' = TRUE
  /\ lastCls' = "none"
  /\ UNCHANGED <<completed, retval, leftover, nlines, opts, failed, destroyed,
                 sinkErrAt, arr>>
  /\ UNCHANGED OutsideExit

\* stdout.on('error'), the error of an earlier write: EPIPE or another one
StdoutError ==
  /\ status = "running" /\ sink # <<>>
  /\ \E epipe \in BOOLEAN :
       Commit(IF exiting THEN St ELSE cleanupAndExit(IF epipe THEN 0 ELSE 1, St))
  /\ sinkErrAt' = IF sinkErrAt = NULL THEN Len(sink) ELSE sinkErrAt
  /\ lastCls' = "none"
  /\ UNCHANGED <<completed, retval, leftover, nlines, opts, failed, destroyed,
                 signalled, arr>>
  /\ UNCHANGED OutsideExit

\* the pager's 'exit' event after cleanupAndExit: onPagerExit
PagerExit ==
  /\ status = "running" /\ pager /\ exiting
  /\ \E pagerCode \in {0, 1} :
       Commit(Exit(IF pagerCode # 0 THEN pagerCode ELSE exitCode, St))
  /\ lastCls' = "none"
  /\ UNCHANGED <<completed, retval, leftover, nlines, opts, failed, destroyed,
                 signalled, sinkErrAt, arr>>
  /\ UNCHANGED OutsideExit

\* the pager's 'exit' event before cleanupAndExit: onPrematurePagerExit
PrematurePagerExit ==
  /\ status = "running" /\ pager /\ ~exiting
  /\ \E pagerCode \in {0, 1} :
       Commit(cleanupAndExit(pagerCode, [St EXCEPT !.pager = FALSE]))
  /\ lastCls' = "none"
  /\ UNCHANGED <<completed, retval, leftover, nlines, opts, failed, destroyed,
                 signalled, sinkErrAt, arr>>
  /\ UNCHANGED OutsideExit

NextExit ==
  \/ \E f \in Files : ExitData(f) \/ ExitEnd(f) \/ ExitError(f)
  \/ Signal
  \/ StdoutError
  \/ PagerExit
  \/ PrematurePagerExit

SpecExit == InitExit /\ [][NextExit]_vars

\* ------------------------------------------- the file run, not strict
(* The same handlers without --strict and without a pager, signal or       *)
(* error of stdout: the lines that are not records are written too.        *)
InitOrder ==
  /\ ArgvIdle /\ LogIdle /\ RingIdle
  /\ TextIdle /\ LineIdle /\ StdinIdle /\ ExitIdle /\ RenderIdle
  /\ streams = OpenedStreams
  /\ sink = <<>> /\ status = "running" /\ exiting = FALSE
  /\ completed = 0 /\ retval = 0
  /\ leftover = [f \in Files |-> FALSE] /\ nlines = 0
  /\ surv = [f \in Files |-> <<>>] /\ ran = FALSE /\ blocked = FALSE
  /\ failed = {} /\ exitCode = NULL /\ pager = FALSE
  /\ opts = [level |-> WARN, strict |-> FALSE, condFuncs |-> <<>>, condVm |-> <<>>,
             outputMode |-> OM_LONG]

NextOrder == \E f \in Files : ExitData(f) \/ ExitEnd(f) \/ ExitError(f)

SpecOrder == InitOrder /\ [][NextOrder]_vars

\* ------------------------------------------------------- one line
(* handleLogLine on one line, for every command line and every line of    *)
(* the bounded sets below.                                                *)
Levels == {INFO, WARN, ERROR}

\* a record with the core fields of D missing (ABSENT) or null, D small
Recs ==
  {[k \in DOMAIN MkRec(0, 0, 0, 0) |->
      IF k \in D THEN bad ELSE MkRec(lvl, 1, 1, x)[k]] :
   lvl \in Levels, x \in {ABSENT, 1},
   bad \in {NULL, ABSENT},
   D \in {d \in SUBSET CoreFields : Cardinality(d) <= MaxDefects}}

AllLines ==
  {[lead |-> l, body |-> "{", parses |-> TRUE, rec |-> r] : l \in BOOLEAN, r \in Recs}
  \cup {[lead |-> l, body |-> b, parses |-> FALSE, rec |-> NoRec] :
          l \in BOOLEAN, b \in {"", "x", "{"}}

\* the -c conditions of a command line, in order
CondLists ==
  {<<>>, <<"extra">>, <<"isError">>, <<"never", "extra">>, <<"always", "isError">>,
   <<"isError", "extra">>}

\* parseArgv: -l, --strict, and -c, compiled to functions or (BUNYAN_EXEC=vm)
\* to vm scripts
AllOpts ==
  {[level |-> l, strict |-> b, condFuncs |-> c, condVm |-> <<>>, outputMode |-> om] :
     l \in {NULL, 0, WARN}, b \in BOOLEAN, c \in CondLists, om \in OutputModes}
  \cup {[level |-> l, strict |-> b, condFuncs |-> <<>>, condVm |-> c, outputMode |-> om] :
     l \in {NULL, 0, WARN}, b \in BOOLEAN,
     c \in {cl \in CondLists : ~parseArgv(cl, "vm").error}, om \in OutputModes}

InitLine ==
  /\ ArgvIdle /\ LogIdle /\ RingIdle
  /\ TextIdle /\ StdinIdle /\ ExitIdle /\ RenderIdle
  /\ failed = {} /\ exitCode = NULL /\ pager = FALSE
  /\ streams = OpenedStreams
  /\ sink = <<>> /\ status = "running" /\ exiting = FALSE
  /\ completed = 0 /\ retval = 0
  /\ leftover = [f \in Files |-> FALSE] /\ nlines = 0
  /\ surv = [f \in Files |-> <<>>] /\ ran = FALSE /\ blocked = FALSE
  /\ opts \in AllOpts
  /\ lnLine \in AllLines
  /\ lnCls = "none"
  /\ lnDone = FALSE

\* handleLogLine(null, line, opts, stylize)
HandleOne ==
  /\ ~lnDone
  /\ LET st1 == handleLogLine(NoFile, lnLine, opts, St)
     IN  Commit(st1) /\ lnCls' = st1.cls
  /\ lnDone' = TRUE
  /\ UNCHANGED lnLine
  /\ UNCHANGED OutsideLine

NextLine == HandleOne

SpecLine == InitLine /\ [][NextLine]_vars

\* ------------------------------------------------------- the command line
(* main: parseArgv, and then the first line of the input.  An error of     *)
(* parseArgv is reported and ends the process with status 1.               *)
ArgCondLists ==
  {<<>>, <<"always">>, <<"extra">>, <<"isError">>, <<"illegal">>, <<"never", "extra">>,
   <<"isError", "illegal">>}

ArgvLines ==
  {RecLine(ERROR, 1, 1, 1), RecLine(ERROR, 1, 1, ABSENT), RecLine(INFO, 1, 1, ABSENT),
   RecLine(ERROR, 1, NULL, 1), TextLine(1)}

InitArgv ==
  /\ LogIdle /\ RingIdle
  /\ TextIdle /\ StdinIdle /\ ExitIdle /\ RenderIdle
  /\ failed = {} /\ exitCode = NULL /\ pager = FALSE
  /\ streams = OpenedStreams
  /\ sink = <<>> /\ status = "running" /\ exiting = FALSE
  /\ completed = 0 /\ retval = 0
  /\ leftover = [f \in Files |-> FALSE] /\ nlines = 0
  /\ surv = [f \in Files |-> <<>>] /\ ran = FALSE /\ blocked = FALSE
  /\ \E l \in {NULL, WARN}, b \in BOOLEAN, om \in {OM_LONG, OM_JSON} :
       opts = [level |-> l, strict |-> b, condFuncs |-> <<>>, condVm |-> <<>>,
               outputMode |-> om]
  /\ argConds \in ArgCondLists /\ argExec \in {"func", "vm"} /\ argDone = FALSE
  /\ lnLine \in ArgvLines
  /\ lnCls = "none"
  /\ lnDone = FALSE

\* `try { var opts = parseArgv(argv); } catch (e) { ...; cleanupAndExit(1); }`
ParseArgv ==
  /\ ~argDone
  /\ LET p == parseArgv(argConds, argExec)
     IN  IF p.error
         THEN Commit(cleanupAndExit(1, St)) /\ UNCHANGED opts
         ELSE /\ opts' = [opts EXCEPT !.condFuncs = p.condFuncs, !.condVm = p.condVm]
              /\ UNCHANGED <<blocked, streams, sink, status, exiting, surv, ran, exitCode, pager>>
  /\ argDone' = TRUE
  /\ UNCHANGED <<argConds, argExec, lineVars>>
  /\ UNCHANGED OutsideArgv

\* the first line of the input reaches handleLogLine
ArgvLine ==
  /\ argDone /\ status = "running"
  /\ HandleOne

NextArgv == ParseArgv \/ ArgvLine

SpecArgv == InitArgv /\ [][NextArgv]_vars

\* ------------------------------------------------------- the stdin run
(* processStdin: the lines of stdin go to handleLogLine with file ===      *)
(* null, chunk by chunk; the callback of 'end' is cleanupAndExit(retval).  *)
StdinLines ==
  {RecLine(ERROR, 1, 1, 1), RecLine(ERROR, 1, 1, ABSENT), RecLine(INFO, 1, 1, 1),
   TextLine(1)}

StdinOpts ==
  {o \in AllOpts : o.level # 0 /\ o.condFuncs \in {<<>>, <<"extra">>}
                               /\ o.condVm \in {<<>>, <<"extra">>}
                               /\ o.outputMode \in {OM_LONG, OM_JSON}}

InitStdin ==
  /\ ArgvIdle /\ LogIdle /\ RingIdle
  /\ TextIdle /\ LineIdle /\ StdinIdle /\ ExitIdle /\ RenderIdle
  /\ failed = {} /\ exitCode = NULL /\ pager = FALSE
  /\ streams = OpenedStreams
  /\ sink = <<>> /\ status = "running" /\ exiting = FALSE
  /\ completed = 0 /\ retval = 0
  /\ leftover = [f \in Files |-> FALSE] /\ nlines = 0
  /\ surv = [f \in Files |-> <<>>] /\ ran = FALSE /\ blocked = FALSE
  /\ opts \in StdinOpts

\* stdin.on('data') with a chunk that holds no line terminator
StdinPartial ==
  /\ status = "running"
  /\ Len(input) < MaxStdin
  /\ inLeft' = TRUE
  /\ UNCHANGED <<blocked, input, streams, sink, status, exiting, surv, ran, exitCode, pager>>
  /\ UNCHANGED OutsideStdin

\* stdin.on('data') with a chunk that completes the lines `lines`
StdinData ==
  /\ status = "running"
  /\ \E lines \in SeqsOf(StdinLines, MaxChunk), tail \in BOOLEAN :
       /\ Len(input) + Len(lines) + (IF tail THEN 1 ELSE 0) <= MaxStdin
       /\ Commit(HandleLines(NoFile, lines, opts, St))
       /\ input' = input \o lines
       /\ inLeft' = tail
  /\ UNCHANGED OutsideStdin

\* stdin.on('end')
StdinEnd ==
  /\ status = "running"
  /\ \E last \in StdinLines :
       LET lines == IF inLeft THEN <<last>> ELSE <<>>
           st1 == HandleLines(NoFile, lines, opts, St)
       IN  /\ Commit(IF st1.status = "running" THEN cleanupAndExit(retval, st1) ELSE st1)
           /\ input' = input \o lines
  /\ inLeft' = FALSE
  /\ UNCHANGED OutsideStdin

NextStdin == StdinPartial \/ StdinData \/ StdinEnd

SpecStdin == InitStdin /\ [][NextStdin]_vars

\* ------------------------------------------------- the record in emitRecord
(* emitRecord on one valid record, as far as the record object goes.  The  *)
(* record is a function from its keys to values; a value is a number       *)
(* [num |-> n], a string [str |-> s] or a reference [ref |-> a] to an      *)
(* object of rdObjs, itself a function from keys to numbers and strings.   *)
Num(n) == [num |-> n]
Str(x) == [str |-> x]
Ref(a) == [ref |-> a]

IsRef(v) == "ref" \in DOMAIN v
IsNum(v) == "num" \in DOMAIN v
IsStr(v) == "str" \in DOMAIN v

\* the value in a condition: 0 and "" are falsy, an object is truthy
Truthy(v) ==
  IF "num" \in DOMAIN v THEN v.num # 0
  ELSE IF "str" \in DOMAIN v THEN v.str # ""
  ELSE TRUE

Has(obj, k) == k \in DOMAIN obj

\* `delete obj[k]` for every k of K
Del(obj, K) == [k \in DOMAIN obj \ K |-> obj[k]]

\* `Object.keys(from).forEach(function (k) { rec[prefix + k] = from[k]; })`
Put(rec, prefix, from) ==
  LET new == {prefix \o j : j \in DOMAIN from}
  IN  [k \in DOMAIN rec \cup new |->
         IF k \in new THEN from[CHOOSE j \in DOMAIN from : prefix \o j = k] ELSE rec[k]]

\* the top-level fields that the long and short modes delete as they use them
TopDeleted ==
  {"v", "time", "name", "component", "pid", "level", "src", "hostname", "req_id", "msg"}

\* `if (rec.req && typeof (rec.req) === 'object')`
ConsumeReq(h) ==
  IF Has(h.rec, "req") /\ IsRef(h.rec["req"])
  THEN LET a == h.rec["req"].ref
           req == h.objs[a]
           gone == {"url", "method", "httpVersion", "headers", "trailers"}
                     \cup (IF Has(req, "body") /\ Truthy(req["body"]) THEN {"body"} ELSE {})
           req1 == Del(req, gone)
       IN  [rec |-> Put(Del(h.rec, {"req"}), "req.", req1),
            objs |-> [h.objs EXCEPT ![a] = req1]]
  ELSE h

\* `if (rec.res && typeof (rec.res) === 'object') { _res(rec.res); delete rec.res; }`
ConsumeRes(h) ==
  IF Has(h.rec, "res") /\ IsRef(h.rec["res"])
  THEN LET a == h.rec["res"].ref
           res == h.objs[a]
           hdr == IF Has(res, "header") /\ Truthy(res["header"]) /\ ~IsNum(res["header"])
                  THEN {"header"}
                  ELSE IF Has(res, "headers") /\ Truthy(res["headers"])
                          /\ ~IsNum(res["headers"])
                       THEN {"headers"}
                  ELSE {}
           res1 == Del(res, hdr \cup {"statusCode", "body", "trailer"})
       IN  [rec |-> Del(Put(h.rec, "res.", res1), {"res"}),
            objs |-> [h.objs EXCEPT ![a] = res1]]
  ELSE h

\* `if (rec.err && rec.err.stack)`
ConsumeErr(h) ==
  IF /\ Has(h.rec, "err") /\ IsRef(h.rec["err"])
     /\ Has(h.objs[h.rec["err"].ref], "stack")
     /\ Truthy(h.objs[h.rec["err"].ref]["stack"])
  THEN LET a == h.rec["err"].ref
           err1 == Del(h.objs[a], {"message", "name", "stack"})
       IN  [rec |-> Del(Put(h.rec, "err.", err1), {"err"}),
            objs |-> [h.objs EXCEPT ![a] = err1]]
  ELSE h

\* Where the long and short modes raise a TypeError: `rec.time.substr(11)`
\* (short mode) and `rec.msg.indexOf('\n')` are calls of string methods, which
\* a number and a plain object do not have.
Raised(rec, o) ==
  IF o.outputMode = OM_SHORT /\ ~IsStr(rec["time"]) THEN "time"
  ELSE IF ~IsStr(rec["msg"]) THEN "msg"
  ELSE "no"

\* Mutant of Consume: every mode works on the record itself.
ConsumeAnyMode(rec, objs, o) ==
  ConsumeErr(ConsumeRes(ConsumeReq([rec |-> Del(rec, TopDeleted), objs |-> objs])))

\* What emitRecord leaves of a valid record and of its objects: the long and
\* short modes delete what they render, the other modes only read.
Consume(rec, objs, o) ==
  IF o.outputMode \in {OM_SHORT, OM_LONG}
  THEN IF Raised(rec, o) = "time" THEN [rec |-> Del(rec, {"v"}), objs |-> objs]
       ELSE IF Raised(rec, o) = "msg"
            THEN [rec |-> Del(rec, TopDeleted \ {"msg"}), objs |-> objs]
       ELSE ConsumeErr(ConsumeRes(ConsumeReq([rec |-> Del(rec, TopDeleted),
                                              objs |-> objs])))
  ELSE [rec |-> rec, objs |-> objs]

\* ------------------------------------------------- the string of emitRecord
(* What the long and short modes format from a valid record.  Strings are  *)
(* strings; an entry of `extras` or `details` is the string that was       *)
(* pushed, with the field it came from.  Object.keys order is not          *)
(* represented: the leftover fields are taken in a fixed arbitrary order.  *)

\* `s.indexOf(c) !== -1` for a character c
Contains(s, c) == \E i \in 1..Len(s) : SubSeq(s, i, i) = c

\* `'' + v`, `format('%s', v)`
ToStr(v) ==
  IF IsNum(v) THEN ToString(v.num) ELSE IF IsStr(v) THEN v.str ELSE "[object Object]"

\* `obj[k]` in a string: a missing field reads as `undefined`
Field(obj, k) == IF Has(obj, k) THEN ToStr(obj[k]) ELSE "undefined"

\* `s.split(/\r?\n/).join('\n    ')`
RECURSIVE IndentLines(_)
IndentLines(s) ==
  IF s = "" THEN ""
  ELSE IF Len(s) >= 2 /\ SubSeq(s, 1, 2) = "\r\n"
       THEN "\n    " \o IndentLines(SubSeq(s, 3, Len(s)))
  ELSE IF SubSeq(s, 1, 1) = "\n" THEN "\n    " \o IndentLines(SubSeq(s, 2, Len(s)))
  ELSE SubSeq(s, 1, 1) \o IndentLines(SubSeq(s, 2, Len(s)))

indent(s) == "    " \o IndentLines(s)

\* `s.trimRight()`
RECURSIVE TrimRight(_)
TrimRight(s) ==
  IF s # "" /\ SubSeq(s, Len(s), Len(s)) \in {" ", "\t", "\n", "\r"}
  THEN TrimRight(SubSeq(s, 1, Len(s) - 1))
  ELSE s

\* JSON.stringify of a string: quotes, and escapes for the control characters
RECURSIVE Escaped(_)
Escaped(s) ==
  IF s = "" THEN ""
  ELSE LET c == SubSeq(s, 1, 1)
       IN  (IF c = "\n" THEN "\\n" ELSE IF c = "\t" THEN "\\t"
            ELSE IF c = "\r" THEN "\\r" ELSE c) \o Escaped(SubSeq(s, 2, Len(s)))

Quote(s) == "\"" \o Escaped(s) \o "\""

JsonScalar(v) == IF IsNum(v) THEN ToString(v.num) ELSE Quote(v.str)

RECURSIVE JsonFields(_, _)
JsonFields(obj, K) ==
  LET k == CHOOSE j \in K : TRUE
  IN  "  " \o Quote(k) \o ": " \o JsonScalar(obj[k])
        \o (IF K = {k} THEN "" ELSE ",\n" \o JsonFields(obj, K \ {k}))

\* `JSON.stringify(value, null, 2)`
JSONstringify(v, objs) ==
  IF ~IsRef(v) THEN JsonScalar(v)
  ELSE IF DOMAIN objs[v.ref] = {} THEN "{}"
  ELSE "{\n" \o JsonFields(objs[v.ref], DOMAIN objs[v.ref]) \o "\n}"

\* `'[' + rec.time + ']'`, or `rec.time.substr(11)` in the short mode
TimeStr(rec, o) ==
  IF o.outputMode = OM_SHORT
  THEN SubSeq(rec["time"].str, 12, Len(rec["time"].str))
  ELSE "[" \o ToStr(rec["time"]) \o "]"

\* `rec.name`, with `'/' + rec.component` and (not short) `'/' + rec.pid`
NameStr(rec, o) ==
  ToStr(rec["name"])
    \o (IF Has(rec, "component") /\ Truthy(rec["component"])
        THEN "/" \o ToStr(rec["component"]) ELSE "")
    \o (IF o.outputMode # OM_SHORT THEN "/" \o ToStr(rec["pid"]) ELSE "")

\* the table of padded level names, by property key; "" where it has none
upperPaddedNameFromLevel(key) ==
  CASE key = "10" -> "TRACE" [] key = "20" -> "DEBUG" [] key = "30" -> " INFO"
    [] key = "40" -> " WARN" [] key = "50" -> "ERROR" [] key = "60" -> "FATAL"
    [] OTHER -> ""

\* `upperPaddedNameFromLevel[rec.level] || 'LVL' + rec.level`
LevelStr(rec) ==
  IF upperPaddedNameFromLevel(ToStr(rec["level"])) # ""
  THEN upperPaddedNameFromLevel(ToStr(rec["level"]))
  ELSE "LVL" \o ToStr(rec["level"])

\* `format('%d', obj[k])`
FormatD(obj, k) == IF Has(obj, k) /\ IsNum(obj[k]) THEN ToString(obj[k].num) ELSE "NaN"

\* `if (rec.src && rec.src.file)`: ' (file:line in func)' or ' (file:line)'
SrcStr(rec, objs) ==
  IF Has(rec, "src") /\ IsRef(rec["src"]) /\ Has(objs[rec["src"].ref], "file")
     /\ Truthy(objs[rec["src"].ref]["file"])
  THEN LET s == objs[rec["src"].ref]
       IN  IF Has(s, "func") /\ Truthy(s["func"])
           THEN " (" \o ToStr(s["file"]) \o ":" \o FormatD(s, "line") \o " in "
                  \o ToStr(s["func"]) \o ")"
           ELSE " (" \o ToStr(s["file"]) \o ":" \o FormatD(s, "line") \o ")"
  ELSE ""

\* `hostname || '<no-hostname>'`
HostStr(rec) == IF Truthy(rec["hostname"]) THEN ToStr(rec["hostname"]) ELSE "<no-hostname>"

\* `if (rec.req_id) extras.push('req_id=' + rec.req_id)`
ReqIdExtras(rec) ==
  IF Has(rec, "req_id") /\ Truthy(rec["req_id"])
  THEN <<[key |-> "req_id", text |-> "req_id=" \o ToStr(rec["req_id"])]>>
  ELSE <<>>

\* Mutant of OnelineMsg: the message is always put on the first line.
OnelineMsgAlways(rec) == " " \o rec["msg"].str

\* `if (rec.msg.indexOf('\n') !== -1)`: the message on the first line or in
\* the details
OnelineMsg(rec) ==
  IF Contains(rec["msg"].str, "\n") THEN "" ELSE " " \o rec["msg"].str

MsgDetails(rec) ==
  IF Contains(rec["msg"].str, "\n")
  THEN <<[key |-> "msg", text |-> indent(rec["msg"].str)]>>
  ELSE <<>>

\* the request line, the headers and the body of a req object with fields
\* that are numbers and strings
ReqDetails(rec, objs) ==
  IF Has(rec, "req") /\ IsRef(rec["req"])
  THEN LET req == objs[rec["req"].ref]
           headers == IF ~Has(req, "headers") \/ ~Truthy(req["headers"]) THEN ""
                      ELSE IF IsStr(req["headers"]) THEN "\n" \o req["headers"].str
                      ELSE ToStr(req["headers"])
           version == IF Has(req, "httpVersion") /\ Truthy(req["httpVersion"])
                      THEN ToStr(req["httpVersion"]) ELSE "1.1"
           body == IF Has(req, "body") /\ Truthy(req["body"])
                   THEN "\n\n" \o ToStr(req["body"]) ELSE ""
       IN  <<[key |-> "req",
              text |-> indent(Field(req, "method") \o " " \o Field(req, "url")
                                \o " HTTP/" \o version \o headers \o body)]>>
  ELSE <<>>

\* `http.STATUS_CODES[res.statusCode]` in a string
STATUS_CODES(key) ==
  CASE key = "200" -> "OK" [] key = "404" -> "Not Found" [] OTHER -> "undefined"

\* _res(res): the status line, the header string, the body and the trailer of
\* a res object with fields that are numbers and strings
ResDetails(rec, objs) ==
  IF Has(rec, "res") /\ IsRef(rec["res"])
  THEN LET res == objs[rec["res"].ref]
           headersStr ==
             IF Has(res, "header") /\ Truthy(res["header"]) /\ IsStr(res["header"])
             THEN TrimRight(res["header"].str)
             ELSE IF Has(res, "headers") /\ Truthy(res["headers"])
                     /\ IsStr(res["headers"])
                  THEN TrimRight(res["headers"].str)
             ELSE ""
           headersHaveStatusLine ==
             Len(headersStr) >= 5 /\ SubSeq(headersStr, 1, 5) = "HTTP/"
           s1 == (IF ~headersHaveStatusLine /\ Has(res, "statusCode")
                  THEN "HTTP/1.1 " \o ToStr(res["statusCode"]) \o " "
                         \o STATUS_CODES(ToStr(res["statusCode"])) \o "\n"
                  ELSE "") \o headersStr
           s2 == IF Has(res, "body")
                 THEN IF IsStr(res["body"]) /\ Len(res["body"].str) > 0
                      THEN s1 \o "\n\n" \o res["body"].str ELSE s1
                 ELSE TrimRight(s1)
           s3 == IF Has(res, "trailer") /\ Truthy(res["trailer"])
                 THEN s2 \o "\n" \o ToStr(res["trailer"]) ELSE s2
       IN  IF s3 # "" THEN <<[key |-> "res", text |-> indent(s3)]>> ELSE <<>>
  ELSE <<>>

\* Mutant of ErrDetails: the stack is not rendered.
ErrDetailsNone(rec, objs) == <<>>

\* `if (rec.err && rec.err.stack)`: the stack goes to the details
ErrDetails(rec, objs) ==
  IF /\ Has(rec, "err") /\ IsRef(rec["err"])
     /\ Has(objs[rec["err"].ref], "stack") /\ Truthy(objs[rec["err"].ref]["stack"])
  THEN <<[key |-> "err", text |-> indent(ToStr(objs[rec["err"].ref]["stack"]))]>>
  ELSE <<>>

\* one turn of the loop over the leftover fields: where the field goes, and
\* the string pushed there
LeftoverEntry(key, value, objs) ==
  LET stringified == ~IsStr(value)
      v == IF stringified THEN JSONstringify(value, objs) ELSE value.str
  IN  IF Contains(v, "\n") \/ Len(v) > 50
      THEN [to |-> "details", key |-> key, text |-> indent(key \o ": " \o v)]
      ELSE IF ~stringified /\ (Contains(v, " ") \/ Len(v) = 0)
           THEN [to |-> "extras", key |-> key, text |-> key \o "=" \o Quote(v)]
      ELSE [to |-> "extras", key |-> key, text |-> key \o "=" \o v]

\* the loop over `Object.keys(rec)`: the entries pushed to `to`
RECURSIVE Leftover(_, _, _, _)
Leftover(rec, objs, K, to) ==
  IF K = {} THEN <<>>
  ELSE LET k == CHOOSE j \in K : TRUE
           e == LeftoverEntry(k, rec[k], objs)
       IN  (IF e.to = to THEN <<[key |-> e.key, text |-> e.text]>> ELSE <<>>)
             \o Leftover(rec, objs, K \ {k}, to)

\* `a.join(sep)` of the strings pushed
RECURSIVE Join(_, _)
Join(a, sep) ==
  IF a = <<>> THEN ""
  ELSE a[1].text \o (IF Len(a) = 1 THEN "" ELSE sep \o Join(Tail(a), sep))

\* what emitRecord has formatted when nothing was formatted: a mode other
\* than long and short, or a TypeError on the way
NoOut(form) ==
  [form |-> form, time |-> "", level |-> "", nameStr |-> "", hostname |-> "", src |-> "",
   onelineMsg |-> "", extras |-> <<>>, details |-> <<>>, text |-> ""]

\* The long and short modes: the parts of the line and the string emitted,
\* `'%s %s: %s on %s%s:%s%s\n%s'` or (short) `'%s %s %s:%s%s\n%s'`.
Format(rec, objs, o) ==
  IF o.outputMode \notin {OM_SHORT, OM_LONG} THEN NoOut("other")
  ELSE IF Raised(rec, o) # "no" THEN NoOut("raised")
  ELSE LET short == o.outputMode = OM_SHORT
           c == Consume(rec, objs, o)
           time == TimeStr(rec, o)
           level == LevelStr(rec)
           nameStr == NameStr(rec, o)
           hostname == IF short THEN "" ELSE HostStr(rec)
           src == IF short THEN "" ELSE SrcStr(rec, objs)
           onelineMsg == OnelineMsg(rec)
           extras == ReqIdExtras(rec) \o Leftover(c.rec, c.objs, DOMAIN c.rec, "extras")
           details == MsgDetails(rec) \o ReqDetails(rec, objs) \o ResDetails(rec, objs)
                        \o ErrDetails(rec, objs)
                        \o Leftover(c.rec, c.objs, DOMAIN c.rec, "details")
           extrasStr == IF extras # <<>> THEN " (" \o Join(extras, ", ") \o ")" ELSE ""
           detailsStr == IF details # <<>> THEN Join(details, "\n    --\n") \o "\n" ELSE ""
       IN  [form |-> "text", time |-> time, level |-> level, nameStr |-> nameStr,
            hostname |-> hostname, src |-> src, onelineMsg |-> onelineMsg,
            extras |-> extras, details |-> details,
            text |-> IF short
                     THEN time \o " " \o level \o " " \o nameStr \o ":" \o onelineMsg
                            \o extrasStr \o "\n" \o detailsStr
                     ELSE time \o " " \o level \o ": " \o nameStr \o " on " \o hostname
                            \o src \o ":" \o onelineMsg \o extrasStr \o "\n" \o detailsStr]

\* the core fields of a valid record, with the declared types
CoreRec ==
  [k \in CoreFields |-> IF k \in {"v", "level", "pid"} THEN Num(1) ELSE Str("s")]

ReqObjs == {[url |-> Str("s"), method |-> Str("s")],
            [url |-> Str("s"), method |-> Str("s"), foo |-> Num(1)]}
ResObjs == {[statusCode |-> Num(1)],
            [statusCode |-> Num(1), headers |-> Str("s"), bar |-> Num(1)]}
ErrObjs == {[message |-> Str("s"), name |-> Str("s"), stack |-> Str("s")],
            [message |-> Str("s"), name |-> Str("s"), stack |-> Str("s"), code |-> Num(1)],
            [message |-> Str("s")]}

\* with(rec, k, v): the record with one more key
With(rec, k, v) == [j \in DOMAIN rec \cup {k} |-> IF j = k THEN v ELSE rec[j]]

\* strings of 50 and of 51 characters
Str50 == "12345678901234567890123456789012345678901234567890"
Str51 == Str50 \o "1"

\* the values of the field `extra` of the user's: numbers, strings and objects
ExtraValues ==
  {Num(1), Str(""), Str("a b"), Str("a\tb"), Str("a\nb"), Str(Str50), Str(Str51), Ref("x")}
ExtraObjs == {<<>>, [a |-> Num(1)]}
\* no field, or the value of the field with the object it refers to
Extras ==
  {<<{}, <<>>>>} \cup {<<{v}, <<>>>> : v \in ExtraValues \ {Ref("x")}}
    \cup {<<{Ref("x")}, xo>> : xo \in ExtraObjs}
SrcObj == [file |-> Str("f.js"), line |-> Num(7)]

\* the records given to emitRecord: the core fields with a message of one
\* line or two, and maybe a src, a field of the user's, a req, a res and an
\* err, each an object or (req) a string
RenderInputs ==
  {[rec |-> r6, objs |-> [a \in {"req", "res", "err", "src", "x"} |->
                            IF a = "req" THEN q ELSE IF a = "res" THEN p
                            ELSE IF a = "err" THEN e ELSE IF a = "src" THEN SrcObj
                            ELSE xo]] :
     <<r6, q, p, e, xo>> \in
       {<<LET x == xx[1]
              r0 == IF m THEN With(CoreRec, "msg", Str("a\nb")) ELSE CoreRec
              r1 == IF x # {} THEN With(r0, "extra", CHOOSE v \in x : TRUE) ELSE r0
              r2 == IF hq = "obj" THEN With(r1, "req", Ref("req"))
                    ELSE IF hq = "str" THEN With(r1, "req", Str("s")) ELSE r1
              r3 == IF hp THEN With(r2, "res", Ref("res")) ELSE r2
              r4 == IF he THEN With(r3, "err", Ref("err")) ELSE r3
          IN  IF hs THEN With(r4, "src", Ref("src")) ELSE r4,
          q, p, e, xx[2]>> :
        m \in BOOLEAN, xx \in Extras,
        hq \in {"no", "str", "obj"}, hp \in BOOLEAN, he \in BOOLEAN, hs \in BOOLEAN,
        q \in ReqObjs, p \in ResObjs, e \in ErrObjs}}

\* The records of another shape: valid records (isValidRecord tests the core
\* fields for null only) where each of these well-known fields is as
\* declared, absent where it may be, or of another type: a number for a
\* string, a string for an object.
ShapeFields == {"msg", "time", "src", "req", "res", "err"}
Declared(k) == IF k \in {"msg", "time"} THEN Str("s") ELSE Ref(k)
WrongValue(k) == IF k \in {"msg", "time"} THEN Num(5) ELSE Str("s")
ShapeChoices ==
  {c \in [ShapeFields -> {"absent", "declared", "wrong"}] :
     c["msg"] # "absent" /\ c["time"] # "absent"}
ShapeRec(c) ==
  LET K == {k \in ShapeFields : c[k] # "absent"}
  IN  [k \in CoreFields \cup K |->
         IF k \notin K THEN CoreRec[k]
         ELSE IF c[k] = "wrong" THEN WrongValue(k) ELSE Declared(k)]
ShapeObjs ==
  [a \in {"req", "res", "err", "src", "x"} |->
     IF a = "req" THEN [url |-> Str("s"), method |-> Str("s")]
     ELSE IF a = "res" THEN [statusCode |-> Num(1)]
     ELSE IF a = "err" THEN [message |-> Str("s"), stack |-> Str("s")]
     ELSE IF a = "src" THEN SrcObj ELSE <<>>]
ShapeInputs == {[rec |-> ShapeRec(c), objs |-> ShapeObjs] : c \in ShapeChoices}

InitRender ==
  /\ ArgvIdle /\ LogIdle /\ RingIdle
  /\ TextIdle /\ LineIdle /\ StdinIdle /\ ExitIdle
  /\ streams = OpenedStreams
  /\ sink = <<>> /\ status = "running" /\ exiting = FALSE
  /\ completed = 0 /\ retval = 0
  /\ leftover = [f \in Files |-> FALSE] /\ nlines = 0
  /\ surv = [f \in Files |-> <<>>] /\ ran = FALSE /\ blocked = FALSE
  /\ failed = {} /\ exitCode = NULL /\ pager = FALSE
  /\ \E om \in OutputModes :
       opts = [level |-> NULL, strict |-> FALSE, condFuncs |-> <<>>, condVm |-> <<>>,
               outputMode |-> om]
  /\ \E h \in RenderInputs : rdRec = h.rec /\ rdObjs = h.objs /\ rdOrig = h
  /\ rdDone = FALSE /\ rdOut = NoOut("none")

\* emitRecord(rec, line, opts, stylize): one string is written
Render ==
  /\ ~rdDone
  /\ LET h == Consume(rdRec, rdObjs, opts)
     IN  rdRec' = h.rec /\ rdObjs' = h.objs
  /\ rdOut' = Format(rdRec, rdObjs, opts)
  /\ sink' = IF rdOut'.form = "raised" THEN sink
             ELSE emit([kind |-> "rec", line |-> lnLine], St).sink
  /\ rdDone' = TRUE
  /\ UNCHANGED rdOrig
  /\ UNCHANGED OutsideRender

NextRender == Render

SpecRender == InitRender /\ [][NextRender]_vars

\* the long and short modes on the records of another shape
InitShape ==
  /\ ArgvIdle /\ LogIdle /\ RingIdle
  /\ TextIdle /\ LineIdle /\ StdinIdle /\ ExitIdle
  /\ streams = OpenedStreams
  /\ sink = <<>> /\ status = "running" /\ exiting = FALSE
  /\ completed = 0 /\ retval = 0
  /\ leftover = [f \in Files |-> FALSE] /\ nlines = 0
  /\ surv = [f \in Files |-> <<>>] /\ ran = FALSE /\ blocked = FALSE
  /\ failed = {} /\ exitCode = NULL /\ pager = FALSE
  /\ \E om \in {OM_LONG, OM_SHORT} :
       opts = [level |-> NULL, strict |-> FALSE, condFuncs |-> <<>>, condVm |-> <<>>,
               outputMode |-> om]
  /\ \E h \in ShapeInputs : rdRec = h.rec /\ rdObjs = h.objs /\ rdOrig = h
  /\ rdDone = FALSE /\ rdOut = NoOut("none")

SpecShape == InitShape /\ [][NextRender]_vars

\* ------------------------------------------------- lines from chunks
(* The 'data' and 'end' handlers of processFile and processStdin, on the   *)
(* characters of one source: "a" is any character that is neither CR nor   *)
(* LF.  handleLogLine is represented by the list of lines it was given.    *)
CR == "CR"
LF == "LF"
Chars == {"a", CR, LF}

\* chunk.split(/\r\n|\n/): the pieces between the terminators; cur is the
\* piece being read
RECURSIVE Split(_, _)
Split(s, cur) ==
  IF s = <<>> THEN <<cur>>
  ELSE IF Len(s) >= 2 /\ s[1] = CR /\ s[2] = LF
       THEN <<cur>> \o Split(SubSeq(s, 3, Len(s)), <<>>)
  ELSE IF s[1] = LF THEN <<cur>> \o Split(Tail(s), <<>>)
  ELSE Split(Tail(s), Append(cur, s[1]))

\* the 'data' handler: the new leftover and the lines handed over
OnData(chunk, left) ==
  LET lines == Split(chunk, <<>>)
      length == Len(lines)
  IN  IF length = 1 THEN [lo |-> left \o lines[1], out |-> <<>>]
      ELSE [lo |-> lines[length],
            out |-> <<left \o lines[1]>> \o SubSeq(lines, 2, length - 1)]

\* the 'end' handler
OnEnd(left) == IF left # <<>> THEN <<left>> ELSE <<>>

FileIdle ==
  /\ streams = OpenedStreams
  /\ sink = <<>> /\ status = "running" /\ exiting = FALSE
  /\ completed = 0 /\ retval = 0
  /\ leftover = [f \in Files |-> FALSE] /\ nlines = 0
  /\ opts = [level |-> NULL, strict |-> FALSE, condFuncs |-> <<>>, condVm |-> <<>>,
             outputMode |-> OM_LONG]
  /\ surv = [f \in Files |-> <<>>] /\ ran = FALSE /\ blocked = FALSE
  /\ failed = {} /\ exitCode = NULL /\ pager = FALSE

InitText ==
  /\ ArgvIdle /\ LogIdle /\ RingIdle
  /\ FileIdle /\ LineIdle /\ StdinIdle /\ ExitIdle /\ RenderIdle
  /\ whole \in UNION {[1..n -> Chars] : n \in 0..MaxText}
  /\ rest = whole
  /\ lo = <<>>
  /\ handed = <<>>
  /\ ended = FALSE

\* a chunk of one or more characters arrives
TextData ==
  /\ ~ended
  /\ \E k \in 1..Len(rest) :
       LET r == OnData(SubSeq(rest, 1, k), lo)
       IN  /\ lo' = r.lo
           /\ handed' = handed \o r.out
           /\ rest' = SubSeq(rest, k + 1, Len(rest))
  /\ UNCHANGED <<whole, ended>>
  /\ UNCHANGED OutsideText

\* end of data, after the last chunk
TextEnd ==
  /\ ~ended /\ rest = <<>>
  /\ handed' = handed \o OnEnd(lo)
  /\ lo' = <<>>
  /\ ended' = TRUE
  /\ UNCHANGED <<whole, rest>>
  /\ UNCHANGED OutsideText

NextText == TextData \/ TextEnd

SpecText == InitText /\ [][NextText]_vars

\* ------------------------------------------------- the levels of a Logger
(* A Logger and at most one child of it.  Logger 1 is the parent, made by  *)
(* `new Logger({name, level})` with its one default stream; logger 2 is    *)
(* the child, made by `parent.child({level}, simple)`.  A logger's         *)
(* `streams` is an array of stream entries; lgArr says which array, so     *)
(* that two loggers can hold the same array.  Of a stream entry the level, *)
(* the name ("" for no name) and `raw` (type === 'raw') are kept.  A       *)
(* logger's `fields` is an object of lgObjs: object 1 is made for the      *)
(* parent, object 2 for the child, object 3 for the record of a log call.  *)
Parent == 1
Child == 2
Loggers == {Parent, Child}

\* `name.toLowerCase()` on the names used here
toLowerCase(name) ==
  CASE name = "WARN" -> "warn" [] name = "INFO" -> "info" [] name = "ERROR" -> "error"
    [] OTHER -> name

\* levelFromName; 0 (`undefined`) for a name it does not have
levelFromName(name) ==
  CASE name = "trace" -> 10 [] name = "debug" -> 20 [] name = "info" -> INFO
    [] name = "warn" -> WARN [] name = "error" -> ERROR [] name = "fatal" -> 60
    [] OTHER -> 0

\* resolveLevel(nameOrNum): the level, or NULL when it raises
resolveLevel(v) ==
  IF IsStr(v)
  THEN IF levelFromName(toLowerCase(v.str)) = 0 THEN NULL
       ELSE levelFromName(toLowerCase(v.str))
  ELSE IF v.num < 0 THEN NULL ELSE v.num

\* the levels given to the calls: numbers and names, two of them invalid
LevelArgs == {Num(INFO), Num(ERROR), Str("warn"), Str("WARN"), Str("bogus"), Num(-1)}

\* the logger state threaded through the methods
Lg == [level |-> lgLevel, arr |-> lgArr, streams |-> lgStreams, child |-> lgChild,
       have |-> lgHave, fields |-> lgFields, objs |-> lgObjs, ser |-> lgSer,
       out |-> lgOut]

CommitLg(g) ==
  /\ lgLevel' = g.level
  /\ lgArr' = g.arr
  /\ lgStreams' = g.streams
  /\ lgChild' = g.child
  /\ lgHave' = g.have
  /\ lgFields' = g.fields
  /\ lgObjs' = g.objs
  /\ lgSer' = g.ser
  /\ lgOut' = g.out

\* the object that mkRecord makes
RecObj == 3

\* Mutant of objCopy: the object itself is returned.
objCopyAlias(src, dst, objs) ==
  [ref |-> src, objs |-> objs]

\* objCopy(obj) of an object: a new object `dst` with the keys and values of
\* `src`
objCopy(src, dst, objs) ==
  [ref |-> dst, objs |-> [objs EXCEPT ![dst] = objs[src]]]

\* the `streams` array of logger who
StreamsOf(g, who) == g.streams[g.arr[who]]

\* addStream(s) on logger who; s.level is a level argument or {} (`undefined`),
\* and the default level is INFO; s.raw tells whether s.type is 'raw'.  The
\* cached flag of the logger it is called on is deleted.
addStream(who, s, g) ==
  LET level == IF s.level = {} THEN resolveLevel(Num(INFO))
               ELSE resolveLevel(CHOOSE v \in s.level : TRUE)
  IN  IF level = NULL THEN g
      ELSE [g EXCEPT
              !.level[who] = IF level < @ THEN level ELSE @,
              !.streams[g.arr[who]] =
                 Append(@, [level |-> level, name |-> s.name, raw |-> s.raw]),
              !.have[who] = "undefined"]

\* level(value) on logger who, a set
level(who, value, g) ==
  LET newLevel == resolveLevel(value)
  IN  IF newLevel = NULL THEN g
      ELSE [g EXCEPT
              !.level[who] = newLevel,
              !.streams[g.arr[who]] = [i \in 1..Len(@) |-> [@[i] EXCEPT !.level = newLevel]]]

\* the index (from 1) of the stream that levels(name, ...) finds, 0 when it
\* raises: `name` is an index (from 0) or the name of a stream
FindStream(ss, name) ==
  IF IsNum(name)
  THEN IF name.num + 1 \in 1..Len(ss) THEN name.num + 1 ELSE 0
  ELSE IF \E i \in 1..Len(ss) : ss[i].name = name.str
       THEN CHOOSE i \in 1..Len(ss) :
              ss[i].name = name.str /\ \A j \in 1..(i - 1) : ss[j].name # name.str
       ELSE 0

\* levels(name, value) on logger who, a set
levels(who, name, value, g) ==
  LET i == FindStream(StreamsOf(g, who), name)
      newLevel == resolveLevel(value)
  IN  IF i = 0 \/ newLevel = NULL THEN g
      ELSE [g EXCEPT
              !.streams[g.arr[who]][i].level = newLevel,
              !.level[who] = IF newLevel < @ THEN newLevel ELSE @]

\* the marker that replaces a field whose serializer raised
Broken(name) ==
  Str("(Error in Bunyan log \"" \o name
        \o "\" serializer broke field. See stderr for details.)")

\* _applySerializers(fields, excludeFields) with the serializers ser: each
\* serializer is run in a try, and its exception leaves the marker
_applySerializers(fields, excludeFields, ser) ==
  [k \in DOMAIN fields |->
     IF ~Has(ser, k) \/ k \in excludeFields THEN fields[k]
     ELSE IF ser[k] = "throws" THEN Broken(k)
     ELSE Str("serialized")]

\* the options of a child that are fields: every option but `level`
\* (options.stream, streams and serializers are not given here)
DataOf(options) == options.fields

\* the names of the options of a simple child, `level` among them
AllOf(options) ==
  IF options.level = {} THEN options.fields
  ELSE With(options.fields, "level", CHOOSE v \in options.level : TRUE)

\* the end of the constructor: the options that are data become fields,
\* through the serializers; pid is set when the options have none
SetFields(who, options, g) ==
  LET fields0 == _applySerializers(DataOf(options), {}, g.ser[who])
      fields == IF Has(fields0, "pid") /\ Truthy(fields0.pid) THEN fields0
                ELSE With(fields0, "pid", Num(1))
  IN  [g EXCEPT !.objs[g.fields[who]] = Put(@, "", fields)]

\* parent.child(options, simple): `new Logger(parent, options, simple)`.  The
\* simple child takes the parent's array and serializers, and a new fields
\* object with the parent's fields and every option; the full child copies
\* the stream entries, the serializers and the fields, sets
\* `options.level`, if truthy, and adds the options that are data.
child(options, simple, g) ==
  IF simple
  THEN [g EXCEPT !.level[Child] = g.level[Parent],
                 !.arr[Child] = g.arr[Parent],
                 !.ser[Child] = g.ser[Parent],
                 !.fields[Child] = Child,
                 !.objs[Child] = Put(g.objs[g.fields[Parent]], "", AllOf(options)),
                 !.child = "simple"]
  ELSE LET c == objCopy(g.fields[Parent], Child, g.objs)
           g1 == [g EXCEPT !.level[Child] = g.level[Parent],
                           !.arr[Child] = Child,
                           !.streams[Child] = g.streams[Parent],
                           !.ser[Child] = g.ser[Parent],
                           !.fields[Child] = c.ref,
                           !.objs = c.objs,
                           !.child = "full"]
       IN  IF options.level = {} THEN SetFields(Child, options, g1)
           ELSE LET value == CHOOSE v \in options.level : TRUE
                IN  IF value = Num(0) THEN SetFields(Child, options, g1)
                    ELSE IF resolveLevel(value) = NULL THEN g
                    ELSE SetFields(Child, options, level(Child, value, g1))

\* the loggers that exist
Created == IF lgChild = "none" THEN {Parent} ELSE Loggers

\* the level option of a call: absent, or a level argument
LevelOpts == {{}} \cup {{v} : v \in LevelArgs}

\* the fields of `new Logger({name: 'app'})`: name, hostname and pid
RootFields == [name |-> Str("app"), hostname |-> Str("host"), pid |-> Num(1)]

\* no log call has been made
NoCall ==
  [who |-> 0, minLevel |-> 0, kind |-> "none", raised |-> FALSE,
   returned |-> "undefined", made |-> FALSE, rec |-> <<>>, written |-> <<>>]

\* `new Logger({name: ..., level: l})`: one stream to stdout at level l, INFO
\* when there is none
InitLog ==
  /\ ArgvIdle /\ RingIdle
  /\ TextIdle /\ LineIdle /\ StdinIdle /\ ExitIdle /\ RenderIdle
  /\ streams = OpenedStreams
  /\ sink = <<>> /\ status = "running" /\ exiting = FALSE
  /\ completed = 0 /\ retval = 0
  /\ leftover = [f \in Files |-> FALSE] /\ nlines = 0
  /\ surv = [f \in Files |-> <<>>] /\ ran = FALSE /\ blocked = FALSE
  /\ failed = {} /\ exitCode = NULL /\ pager = FALSE
  /\ opts = [level |-> NULL, strict |-> FALSE, condFuncs |-> <<>>, condVm |-> <<>>,
             outputMode |-> OM_LONG]
  /\ \E l \in {INFO, WARN} :
       /\ lgLevel = [g \in Loggers |-> IF g = Parent THEN l ELSE NULL]
       /\ lgStreams = [a \in Loggers |->
                         IF a = Parent
                         THEN <<[level |-> l, name |-> "", raw |-> FALSE]>> ELSE <<>>]
  /\ lgArr = [g \in Loggers |-> IF g = Parent THEN Parent ELSE 0]
  /\ lgChild = "none"
  /\ lgHave = [g \in Loggers |-> "undefined"]
  /\ lgFields = [g \in Loggers |-> IF g = Parent THEN Parent ELSE 0]
  /\ lgObjs = [o \in 1..RecObj |-> IF o = Parent THEN RootFields ELSE <<>>]
  /\ lgSer = [g \in Loggers |-> <<>>]
  /\ lgOut = NoCall

AddStream(who) ==
  /\ who \in Created
  /\ Len(StreamsOf(Lg, who)) < MaxStreams
  /\ \E l \in LevelOpts, n \in {"", "a"} :
       CommitLg(addStream(who, [level |-> l, name |-> n, raw |-> FALSE], Lg))
  /\ UNCHANGED OutsideLog

SetLevel(who) ==
  /\ who \in Created
  /\ \E v \in LevelArgs : CommitLg(level(who, v, Lg))
  /\ UNCHANGED OutsideLog

SetLevels(who) ==
  /\ who \in Created
  /\ \E name \in {Num(0), Num(1), Num(MaxStreams), Str("a")}, v \in LevelArgs :
       CommitLg(levels(who, name, v, Lg))
  /\ UNCHANGED OutsideLog

NewChild ==
  /\ lgChild = "none"
  /\ \E l \in LevelOpts \cup {{Num(0)}}, simple \in BOOLEAN :
       CommitLg(child([level |-> l, fields |-> <<>>], simple, Lg))
  /\ UNCHANGED OutsideLog

NextLog ==
  \/ \E who \in Loggers : AddStream(who) \/ SetLevel(who) \/ SetLevels(who)
  \/ NewChild

SpecLog == InitLog /\ [][NextLog]_vars

\* ------------------------------------------------------------ the log calls
(* log.info(...), log.error(...) on the parent or the child.  The          *)
(* arguments of a call are of one of four kinds: none, a message, fields   *)
(* and a message, an Error and a message.  What a stream is written is     *)
(* kept by its form: "object" (the record), "string" (the JSON text and a  *)
(* newline), "undefined", or "none" when the stream is passed over.        *)
LOG_VERSION == 0

\* the methods called: log.info and log.error
Methods == {INFO, ERROR}

\* the fields a caller passes
CallFields == {[req |-> Ref("q")], [level |-> Num(WARN), v |-> Num(7)]}

CallArgs ==
  {[kind |-> "none", fields |-> <<>>], [kind |-> "msg", fields |-> <<>>],
   [kind |-> "err", fields |-> <<>>]}
  \cup {[kind |-> "fields", fields |-> f] : f \in CallFields}

\* mkRecord(log, minLevel, args): the record is a copy of the logger's
\* fields, then level, the caller's fields (through the serializers), msg,
\* time unless there is one, and v.  For an Error as first argument the
\* logger's own err serializer, if any, is called outside any try.
mkRecord(who, minLevel, args, g) ==
  IF args.kind = "err" /\ Has(g.ser[who], "err") /\ g.ser[who].err = "throws"
  THEN [raised |-> TRUE, rec |-> 0, objs |-> g.objs]
  ELSE LET fields == IF args.kind = "err"
                     THEN [err |-> IF Has(g.ser[who], "err") THEN Str("serialized")
                                   ELSE Ref("err")]
                     ELSE args.fields
           excludeFields == IF args.kind = "err" THEN {"err"} ELSE {}
           c == objCopy(g.fields[who], RecObj, g.objs)
           rec0 == With(c.objs[c.ref], "level", Num(minLevel))
           recFields == _applySerializers(fields, excludeFields, g.ser[who])
           rec1 == Put(rec0, "", recFields)
           rec2 == With(rec1, "msg", Str("m"))
           rec3 == IF Has(rec2, "time") /\ Truthy(rec2.time) THEN rec2
                   ELSE With(rec2, "time", Str("now"))
           rec4 == With(rec3, "v", Num(LOG_VERSION))
       IN  [raised |-> FALSE, rec |-> c.ref, objs |-> [c.objs EXCEPT ![c.ref] = rec4]]

\* the lazy test of _emit: whether some stream of the logger is not raw
NonRaw(ss) == IF \E i \in 1..Len(ss) : ~ss[i].raw THEN "true" ELSE "false"

\* _emit(rec): the cached flag is computed when it is undefined; the string
\* is made when the flag is true; every stream whose level is at most
\* rec.level is written the record (raw) or the string
_emit(who, rec, g) ==
  LET ss == StreamsOf(g, who)
      have == IF g.have[who] = "undefined" THEN NonRaw(ss) ELSE g.have[who]
      str == IF have = "true" THEN "string" ELSE "undefined"
      lvl == g.objs[rec].level.num
  IN  [g EXCEPT
         !.have[who] = have,
         !.out.written = [i \in 1..Len(ss) |->
                            IF ss[i].level <= lvl
                            THEN (IF ss[i].raw THEN "object" ELSE str)
                            ELSE "none"]]

\* the function that mkLogEmitter(minLevel) returns, called on logger who
LogEmitter(who, minLevel, args, g) ==
  LET ss == StreamsOf(g, who)
      on == g.level[who] <= minLevel
      g0 == [g EXCEPT !.out = [who |-> who, minLevel |-> minLevel, kind |-> args.kind,
                               raised |-> FALSE, returned |-> "undefined",
                               made |-> FALSE, rec |-> <<>>,
                               written |-> [i \in 1..Len(ss) |-> "none"]]]
  IN  IF args.kind = "none"
      THEN [g0 EXCEPT !.out.returned = IF on THEN "true" ELSE "false"]
      ELSE IF ~on THEN g0
      ELSE LET m == mkRecord(who, minLevel, args, g0)
           IN  IF m.raised THEN [g0 EXCEPT !.out.raised = TRUE]
               ELSE LET g1 == _emit(who, m.rec, [g0 EXCEPT !.objs = m.objs])
                    IN  [g1 EXCEPT !.out.made = TRUE, !.out.rec = m.objs[m.rec],
                                   !.objs[RecObj] = <<>>]

\* `new Logger({name: 'app', streams: [{type, stream, level}]})`: one
\* stream, raw or not, at INFO or ERROR
InitCall ==
  /\ ArgvIdle /\ RingIdle
  /\ TextIdle /\ LineIdle /\ StdinIdle /\ ExitIdle /\ RenderIdle
  /\ streams = OpenedStreams
  /\ sink = <<>> /\ status = "running" /\ exiting = FALSE
  /\ completed = 0 /\ retval = 0
  /\ leftover = [f \in Files |-> FALSE] /\ nlines = 0
  /\ surv = [f \in Files |-> <<>>] /\ ran = FALSE /\ blocked = FALSE
  /\ failed = {} /\ exitCode = NULL /\ pager = FALSE
  /\ opts = [level |-> NULL, strict |-> FALSE, condFuncs |-> <<>>, condVm |-> <<>>,
             outputMode |-> OM_LONG]
  /\ \E l \in {INFO, ERROR}, raw \in BOOLEAN :
       /\ lgLevel = [g \in Loggers |-> IF g = Parent THEN l ELSE NULL]
       /\ lgStreams = [a \in Loggers |->
                         IF a = Parent
                         THEN <<[level |-> l, name |-> "", raw |-> raw]>> ELSE <<>>]
  /\ lgArr = [g \in Loggers |-> IF g = Parent THEN Parent ELSE 0]
  /\ lgChild = "none"
  /\ lgHave = [g \in Loggers |-> "undefined"]
  /\ lgFields = [g \in Loggers |-> IF g = Parent THEN Parent ELSE 0]
  /\ lgObjs = [o \in 1..RecObj |-> IF o = Parent THEN RootFields ELSE <<>>]
  /\ lgSer = [g \in Loggers |-> <<>>]
  /\ lgOut = NoCall

\* log.info(...) or log.error(...) on logger who
LogCall(who) ==
  /\ who \in Created
  /\ \E minLevel \in Methods, args \in CallArgs :
       CommitLg(LogEmitter(who, minLevel, args, Lg))
  /\ UNCHANGED OutsideLog

\* who.addStream({type, stream}): a stream at the default level
CallAddStream(who) ==
  /\ who \in Created
  /\ Len(StreamsOf(Lg, who)) < MaxStreams
  /\ \E raw \in BOOLEAN :
       CommitLg(addStream(who, [level |-> {}, name |-> "", raw |-> raw], Lg))
  /\ UNCHANGED OutsideLog

\* who.level(value)
CallLevel(who) ==
  /\ who \in Created
  /\ \E v \in {Num(INFO), Num(ERROR)} : CommitLg(level(who, v, Lg))
  /\ UNCHANGED OutsideLog

\* who.levels(0, value)
CallLevels(who) ==
  /\ who \in Created
  /\ \E v \in {Num(INFO), Num(ERROR)} : CommitLg(levels(who, Num(0), v, Lg))
  /\ UNCHANGED OutsideLog

\* parent.child({}, simple)
CallChild ==
  /\ lgChild = "none"
  /\ \E simple \in BOOLEAN :
       CommitLg(child([level |-> {}, fields |-> <<>>], simple, Lg))
  /\ UNCHANGED OutsideLog

NextCall ==
  \/ \E who \in Loggers :
       LogCall(who) \/ CallAddStream(who) \/ CallLevel(who) \/ CallLevels(who)
  \/ CallChild

SpecCall == InitCall /\ [][NextCall]_vars

\* ------------------------------------------------- the fields of a record
\* the serializers given to `new Logger`
SerChoices == {<<>>, [err |-> "throws", req |-> "throws"], [err |-> "ok", req |-> "ok"]}

\* `new Logger({name: 'app', serializers, req})`: the default stream at
\* INFO; the field req, when given, goes through the serializers
InitFields ==
  /\ ArgvIdle /\ RingIdle
  /\ TextIdle /\ LineIdle /\ StdinIdle /\ ExitIdle /\ RenderIdle
  /\ streams = OpenedStreams
  /\ sink = <<>> /\ status = "running" /\ exiting = FALSE
  /\ completed = 0 /\ retval = 0
  /\ leftover = [f \in Files |-> FALSE] /\ nlines = 0
  /\ surv = [f \in Files |-> <<>>] /\ ran = FALSE /\ blocked = FALSE
  /\ failed = {} /\ exitCode = NULL /\ pager = FALSE
  /\ opts = [level |-> NULL, strict |-> FALSE, condFuncs |-> <<>>, condVm |-> <<>>,
             outputMode |-> OM_LONG]
  /\ lgLevel = [g \in Loggers |-> IF g = Parent THEN INFO ELSE NULL]
  /\ lgStreams = [a \in Loggers |->
                    IF a = Parent
                    THEN <<[level |-> INFO, name |-> "", raw |-> FALSE]>> ELSE <<>>]
  /\ lgArr = [g \in Loggers |-> IF g = Parent THEN Parent ELSE 0]
  /\ lgChild = "none"
  /\ lgHave = [g \in Loggers |-> "undefined"]
  /\ lgFields = [g \in Loggers |-> IF g = Parent THEN Parent ELSE 0]
  /\ \E ser \in SerChoices, data \in {<<>>, [req |-> Ref("q")], [v |-> Num(7)]} :
       /\ lgSer = [g \in Loggers |-> IF g = Parent THEN ser ELSE <<>>]
       /\ lgObjs = [o \in 1..RecObj |->
                      IF o = Parent
                      THEN Put(RootFields, "", _applySerializers(data, {}, ser))
                      ELSE <<>>]
  /\ lgOut = NoCall

\* parent.child({component, req, level}, simple)
FieldsChild ==
  /\ lgChild = "none"
  /\ \E l \in {{}, {Num(ERROR)}}, simple \in BOOLEAN,
        data \in {[component |-> Str("c")], [req |-> Ref("q")]} :
       CommitLg(child([level |-> l, fields |-> data], simple, Lg))
  /\ UNCHANGED OutsideLog

NextFields == (\E who \in Loggers : LogCall(who)) \/ FieldsChild

SpecFields == InitFields /\ [][NextFields]_vars

\* ------------------------------------------------- the RingBuffer
DefaultLimit == 100

\* the records written: two values, to tell the order
RingRecords == {1, 2}

\* `new RingBuffer(options)`: `options.limit ? options.limit : 100`
InitRing ==
  /\ ArgvIdle /\ LogIdle
  /\ TextIdle /\ LineIdle /\ StdinIdle /\ ExitIdle /\ RenderIdle
  /\ streams = OpenedStreams
  /\ sink = <<>> /\ status = "running" /\ exiting = FALSE
  /\ completed = 0 /\ retval = 0
  /\ leftover = [f \in Files |-> FALSE] /\ nlines = 0
  /\ surv = [f \in Files |-> <<>>] /\ ran = FALSE /\ blocked = FALSE
  /\ failed = {} /\ exitCode = NULL /\ pager = FALSE
  /\ opts = [level |-> NULL, strict |-> FALSE, condFuncs |-> <<>>, condVm |-> <<>>,
             outputMode |-> OM_LONG]
  /\ \E limit \in 0..MaxLimit : rbLimit = IF limit # 0 THEN limit ELSE DefaultLimit
  /\ rbRecords = <<>> /\ rbWritable = TRUE /\ rbHist = <<>>

\* Mutant of write: the oldest record goes when the limit is reached.
writeEarly(record, rb) ==
  LET pushed == Append(rb.records, record)
  IN  [rb EXCEPT !.records = IF Len(pushed) >= rb.limit THEN Tail(pushed) ELSE pushed]

\* RingBuffer.prototype.write, on a writable buffer
write(record, rb) ==
  LET pushed == Append(rb.records, record)
  IN  [rb EXCEPT !.records = IF Len(pushed) > rb.limit THEN Tail(pushed) ELSE pushed]

Rb == [limit |-> rbLimit, records |-> rbRecords]

\* `ring.write(record)`; it raises, and changes nothing, once ended
RingWrite ==
  /\ rbWritable
  /\ Len(rbHist) < MaxWrites
  /\ \E r \in RingRecords :
       /\ rbRecords' = write(r, Rb).records
       /\ rbHist' = Append(rbHist, r)
  /\ UNCHANGED <<rbLimit, rbWritable>>
  /\ UNCHANGED OutsideRing

\* `ring.end()` and `ring.end(record)`: a last write, then not writable
RingEnd ==
  /\ rbWritable
  /\ \/ UNCHANGED <<rbRecords, rbHist>>
     \/ /\ Len(rbHist) < MaxWrites
        /\ \E r \in RingRecords :
             /\ rbRecords' = write(r, Rb).records
             /\ rbHist' = Append(rbHist, r)
  /\ rbWritable' = FALSE
  /\ UNCHANGED rbLimit
  /\ UNCHANGED OutsideRing

NextRing == RingWrite \/ RingEnd

SpecRing == InitRing /\ [][NextRing]_vars

\* ------------------------------------------------- reading the histories
IsSorted(q) == \A i \in 1..Len(q) - 1 : q[i] <= q[i + 1]

\* the records written, each as (time, file); a record's msg names its file
SinkRecs ==
  LET recs == SelectSeq(sink, LAMBDA e : e.kind = "rec")
  IN  [i \in 1..Len(recs) |-> [time |-> recs[i].line.rec.time, file |-> recs[i].line.rec.msg]]

SinkTimes == [i \in 1..Len(SinkRecs) |-> SinkRecs[i].time]

\* the order by (time, registration index) of the sequences qs, each sorted
RECURSIVE MergeAll(_)
MergeAll(qs) ==
  LET left == {f \in Files : qs[f] # <<>>}
  IN  IF left = {} THEN <<>>
      ELSE LET f == CHOOSE x \in left : \A g \in left :
                      qs[x][1] < qs[g][1] \/ (qs[x][1] = qs[g][1] /\ x <= g)
           IN  <<[time |-> qs[f][1], file |-> f]>> \o MergeAll([qs EXCEPT ![f] = Tail(@)])

AllSorted == \A f \in Files : IsSorted(surv[f])

\* ----------------------------------------------------------------- claims

\* C1: when every source's surviving records are non-decreasing in time, the
\* records written to the sink are non-decreasing in time, whatever the
\* interleaving of chunks, end-of-data and read errors.
C1_MergeOrdered == AllSorted => IsSorted(SinkTimes)

\* C1 witness: records of both sources were written, interleaved: a later
\* record of file 1 follows a record of file 2 that follows a record of file 1.
C1_Witness ==
  /\ AllSorted
  /\ \E i, j, k \in 1..Len(SinkRecs) :
       /\ i < j /\ j < k
       /\ SinkRecs[i].file = 1 /\ SinkRecs[j].file = 2 /\ SinkRecs[k].file = 1
       /\ SinkRecs[i].time < SinkRecs[k].time

\* C2: a run that completes has written the surviving records in the order
\* by (time, registration index), whatever the interleaving.
C2_Deterministic ==
  (status = "exited" /\ retval = 0 /\ AllSorted) => SinkRecs = MergeAll(surv)

\* C3: when the run finishes, no source queue holds a pending entry.
C3_AllWritten ==
  status = "exited" => \A f \in Files : streams[f].records = <<>>

\* C4: every handler that gives a source a new pending entry or makes a
\* source done runs emitNextRecord.
C4_SchedulerRuns ==
  [][(\E f \in Files : \/ Len(surv'[f]) > Len(surv[f])
                        \/ (~streams[f].done /\ streams'[f].done)) => ran']_vars

\* C5: a source paused behind a blocking sibling is resumed once its siblings
\* have caught up or completed: no source is left paused when every sibling
\* is done.
C5_PausedResumed ==
  \A f \in Files :
    (\A g \in Files \ {f} : streams[g].done) => ~(streams[f].paused /\ ~streams[f].done)

\* the lines of a text split at once: every terminated line, then the
\* unterminated rest if it is not empty
WholeLines(t) ==
  LET ps == Split(t, <<>>)
  IN  IF ps[Len(ps)] = <<>> THEN SubSeq(ps, 1, Len(ps) - 1) ELSE ps

\* C6: however the text is cut into chunks, the lines handed to the
\* classifier by the end of the stream are the lines of the whole text split
\* at once on LF or CR LF, the unterminated rest last if it is not empty.
C6_Reassembly == ended => handed = WholeLines(whole)

\* the conditions of the command line, whichever way they were compiled
ActiveConds == IF opts.condFuncs # <<>> THEN opts.condFuncs ELSE opts.condVm

Kept == sink = <<[kind |-> "rec", line |-> lnLine]>>

\* C8: a valid record is kept exactly when no threshold is set or its level
\* is at least the threshold, and every condition returns a truthy value.
C8_FilterKeeps ==
  (lnDone /\ lnCls = "valid") =>
    (Kept <=> /\ (opts.level = NULL \/ lnLine.rec.level >= opts.level)
              /\ \A i \in 1..Len(ActiveConds) :
                    EvalCond(ActiveConds[i], lnLine.rec) = "true")

\* C8 witness: with threshold WARN and two conditions, an ERROR record whose
\* conditions all hold was kept.
C8_Witness ==
  /\ lnDone /\ lnCls = "valid" /\ Kept
  /\ opts.level = WARN /\ lnLine.rec.level = ERROR /\ Len(ActiveConds) = 2

\* C9 as claimed: a line is pass-through exactly when it is empty or its
\* first non-space character is not "{".
C9_FirstNonSpace ==
  lnDone => (lnCls = "passthrough" <=> lnLine.body # "{")

\* C9 as amended: a line is pass-through exactly when it is empty or its
\* first character is not "{"; a line of leading spaces followed by a
\* well-formed record is pass-through: it is written unchanged, or dropped
\* in strict mode, and is neither validated nor filtered.
C9_FirstChar ==
  lnDone =>
    /\ lnCls = "passthrough" <=> (lnLine.lead \/ lnLine.body # "{")
    /\ lnLine.lead =>
         /\ status = "running"
         /\ sink = IF opts.strict THEN <<>> ELSE <<[kind |-> "raw", line |-> lnLine]>>

\* C9 witness: a valid record after a leading space was classified
\* pass-through.
C9_Witness ==
  /\ lnDone /\ lnLine.lead /\ lnLine.body = "{" /\ lnLine.parses
  /\ \A k \in CoreFields : lnLine.rec[k] >= 0
  /\ lnCls = "passthrough"

\* C10: a line starting with "{" is a valid record exactly when it parses
\* and each of v, level, name, hostname, pid, time, msg is present and not
\* null; otherwise it is invalid, and a parse failure leaves the pipeline
\* running.
C10_ValidRecord ==
  (lnDone /\ ~lnLine.lead /\ lnLine.body = "{") =>
    /\ lnCls = "valid" <=>
         (lnLine.parses /\ \A k \in CoreFields : lnLine.rec[k] \notin {NULL, ABSENT})
    /\ lnCls \in {"valid", "invalid"}
    /\ ~lnLine.parses => status = "running"

\* C10 witness: a line that parses but whose msg is null was classified
\* invalid.
C10_Witness ==
  /\ lnDone /\ ~lnLine.lead /\ lnLine.body = "{" /\ lnLine.parses
  /\ lnLine.rec.msg = NULL
  /\ lnCls = "invalid"

\* C11: in every output mode, a pass-through or invalid line is written
\* unchanged with one newline when strict is off and gives no output when
\* strict is on; neither the level threshold nor a condition is applied to
\* it (no condition is run, so none can raise).
C11_PassThrough ==
  (lnDone /\ lnCls \in {"passthrough", "invalid"}) =>
    /\ sink = IF opts.strict THEN <<>> ELSE <<[kind |-> "raw", line |-> lnLine]>>
    /\ status = "running"

\* C11 witness: in JSON mode with threshold WARN, an invalid INFO record on
\* which the condition of the command line would raise was written as it is.
C11_Witness ==
  /\ lnDone /\ lnCls = "invalid" /\ ~opts.strict
  /\ opts.outputMode = OM_JSON /\ opts.level = WARN
  /\ lnLine.parses /\ lnLine.rec.level = INFO
  /\ ActiveConds = <<"extra">> /\ lnLine.rec.extra = ABSENT
  /\ sink = <<[kind |-> "raw", line |-> lnLine]>>

\* what one line contributes to the sink, taken alone
ReachesFilter(line) ==
  ~line.lead /\ line.body = "{" /\ line.parses /\ isValidRecord(line.rec)

Throws(line) == ReachesFilter(line) /\ filterRecord(line.rec, opts) = "throw"

LineOut(line) ==
  IF ~ReachesFilter(line)
  THEN (IF opts.strict THEN <<>> ELSE <<[kind |-> "raw", line |-> line]>>)
  ELSE IF filterRecord(line.rec, opts) = "keep"
       THEN <<[kind |-> "rec", line |-> line]>>
  ELSE <<>>

\* the sink when a record whose condition raises is only dropped
RECURSIVE OutDropping(_)
OutDropping(lines) ==
  IF lines = <<>> THEN <<>> ELSE LineOut(Head(lines)) \o OutDropping(Tail(lines))

\* the sink when the run stops at the first record whose condition raises
RECURSIVE OutUntilThrow(_)
OutUntilThrow(lines) ==
  IF lines = <<>> \/ Throws(Head(lines)) THEN <<>>
  ELSE LineOut(Head(lines)) \o OutUntilThrow(Tail(lines))

WrittenOf(f) ==
  LET recs == SelectSeq(SinkRecs, LAMBDA r : r.file = f)
  IN  [i \in 1..Len(recs) |-> recs[i].time]

\* C12: a read error on one source, plain or gzip-compressed, does not stop
\* the others: it does not end the run, and when the run has finished every
\* surviving record of every source that had no read error has been
\* written, in its source's order.
C12_OthersWritten ==
  /\ status # "crashed"
  /\ (status = "exited" /\ failed # {}) =>
       \A g \in Files \ failed : WrittenOf(g) = surv[g]

C14_Flushed ==
  (signalled /\ status = "exited") => \A f \in Files : streams[f].records = <<>>

\* C14 as amended: the handler of a stop signal that finds the run not
\* exiting sets `exiting` and stops at once with code 1: it writes nothing
\* and leaves every queue as it is; without a pager the process has exited
\* with status 1 when the handler returns, with a pager it waits for the
\* pager's exit.
C14_HardStop ==
  [][(signalled' /\ ~signalled /\ ~exiting) =>
       /\ exiting' /\ exitCode' = 1
       /\ sink' = sink /\ streams' = streams
       /\ status' = IF pager THEN "running" ELSE "exited"]_vars

\* C14 witness: a signal ended a run without a pager while a record was
\* pending.
C14_Witness ==
  /\ signalled /\ status = "exited" /\ exitCode = 1 /\ ~pager
  /\ completed < NumFiles /\ sinkErrAt = NULL
  /\ \E f \in Files : streams[f].records # <<>>

\* the times of the pending entries of file f
QueuedOf(f) == [i \in 1..Len(streams[f].records) |-> streams[f].records[i].time]

RawCount == Len(SelectSeq(sink, LAMBDA e : e.kind = "raw"))

\* C15: once `exiting` is set, no line of a chunk or of an end-of-data event
\* that arrives afterwards is classified, enqueued or written: a handler
\* classifies nothing, no queue receives a record, no line is written as
\* it is, and a record written was pending before.
C15_NothingAfterExit ==
  [][exiting =>
       /\ lastCls' = "none"
       /\ surv' = surv
       /\ RawCount' = RawCount
       /\ \A f \in Files : WrittenOf(f)' \o QueuedOf(f)' = WrittenOf(f) \o QueuedOf(f)]_vars

\* C15 witness: a signal set `exiting` while the pager kept the process,
\* and every stream ended afterwards, one of them at least with lines.
C15_Witness ==
  /\ signalled /\ sinkErrAt = NULL /\ failed = {} /\ exitCode = 1
  /\ exiting /\ status = "running"
  /\ completed = NumFiles
  /\ \E f \in Files : arr[f] # <<>>

\* C16: once stdout has reported a write error, nothing more is written to
\* it, the records still pending when a later end-of-data event runs
\* emitNextRecord included, and no exception escapes.
C16_NoWriteAfterError ==
  /\ status # "crashed"
  /\ sinkErrAt # NULL => Len(sink) = sinkErrAt

\* the lines of file f written so far, records and others, in order
SinkLinesOf(f) ==
  LET es == SelectSeq(sink, LAMBDA e : e.line.rec.msg = f)
  IN  [i \in 1..Len(es) |-> es[i].line]

IsPrefix(p, q) == Len(p) <= Len(q) /\ SubSeq(q, 1, Len(p)) = p

\* C17 as claimed: the lines of one source, records and others together,
\* are written in the order of their arrival: what has been written of a
\* source is a prefix of the lines it delivered.
C17_SourceOrder ==
  \A f \in Files : IsPrefix(SinkLinesOf(f), arr[f])

IsRecLine(line) == line.body = "{"

\* C17 as amended: a line that is not a record is written by the handler
\* that receives it, ahead of the records still pending, those of its own
\* source included; the order of arrival is kept among the records of a
\* source and among its other lines, not between the two.
C17_Immediate ==
  \A f \in Files :
    /\ SelectSeq(SinkLinesOf(f), LAMBDA l : ~IsRecLine(l))
         = SelectSeq(arr[f], LAMBDA l : ~IsRecLine(l))
    /\ IsPrefix(SelectSeq(SinkLinesOf(f), IsRecLine), SelectSeq(arr[f], IsRecLine))
    /\ WrittenOf(f) \o QueuedOf(f) = surv[f]

\* C17 witness: a line of text has been written while the record that came
\* before it in the same source is still pending.
C17_Witness ==
  \E f \in Files :
    /\ Len(arr[f]) >= 2 /\ IsRecLine(arr[f][1]) /\ ~IsRecLine(arr[f][2])
    /\ Len(streams[f].records) = 1
    /\ SinkLinesOf(f) = <<arr[f][2]>>

\* C19: pause() is issued to a source's stream only when the stream is
\* flowing and resume() only when it is paused, over any sequence of runs
\* of emitNextRecord; the `paused` flag tells the state of the stream.
C19_PauseIdempotent ==
  \A f \in Files :
    /\ ~streams[f].noop
    /\ streams[f].flowing <=> ~streams[f].paused

\* C19 witness: one source was paused, then resumed and is flowing, while
\* another is paused with a pending entry.
C19_Witness ==
  \E f, g \in Files :
    /\ streams[f].last = "resume" /\ streams[f].flowing /\ ~streams[f].done
    /\ streams[g].last = "pause" /\ ~streams[g].flowing /\ streams[g].records # <<>>

\* C18: in the stdin run nothing is queued: each surviving record and each
\* line that is not a record is written by the handler that completes its
\* line, so what has been written is, in the order of the input, the
\* output of every line handed over so far (up to a condition that raises).
C18_StdinImmediate ==
  /\ \A f \in Files : streams[f].records = <<>> /\ surv[f] = <<>>
  /\ Len(sink) <= Len(input)
  /\ status # "crashed" => sink = OutDropping(input)

\* C18 witness: a line of text, a record and a line of text were written
\* in that order before the end of stdin.
C18_Witness ==
  /\ status = "running" /\ ~exiting
  /\ Len(sink) = 3
  /\ sink[1].kind = "raw" /\ sink[2].kind = "rec" /\ sink[3].kind = "raw"
  /\ input = <<sink[1].line, sink[2].line, sink[3].line>>

\* C20 as claimed: after emitRecord returns, the record and the objects it
\* referred to have the fields and values they had before, in every mode.
C20_RecUnchanged ==
  rdDone => (rdRec = rdOrig.rec /\ rdObjs = rdOrig.objs)

\* the keys that emitRecord adds for the fields of object a left over
Flat(a) == {a \o "." \o k : k \in DOMAIN rdObjs[a]}

\* C20 as amended: the json, bunyan, inspect and simple modes leave the
\* record and its objects as they were; the long and short modes consume
\* the record: the fields they render are deleted from it (v, time, name,
\* pid, level, hostname, msg; req and res when objects, err when it has a
\* stack) and from the req, res and err objects, whose other fields come
\* back as `req.<field>`, `res.<field>`, `err.<field>`; every other field
\* keeps its value.
C20_Consumed ==
  rdDone =>
    IF opts.outputMode \in {OM_LONG, OM_SHORT}
    THEN /\ DOMAIN rdRec \cap TopDeleted = {}
         /\ \A k \in {"req", "res", "err"} :
              Has(rdRec, k) => /\ rdRec[k] = rdOrig.rec[k]
                               /\ rdObjs[k] = rdOrig.objs[k]
                               /\ ~(IsRef(rdRec[k]) /\ k # "err")
         /\ \A k \in DOMAIN rdOrig.rec \ (TopDeleted \cup {"req", "res", "err"}) :
              Has(rdRec, k) /\ rdRec[k] = rdOrig.rec[k]
         /\ \A a \in {"req", "res", "err"} :
              (Has(rdOrig.rec, a) /\ ~Has(rdRec, a)) =>
                /\ DOMAIN rdObjs[a] \cap {"url", "method", "statusCode", "stack"} = {}
                /\ \A k \in DOMAIN rdObjs[a] :
                     /\ rdObjs[a][k] = rdOrig.objs[a][k]
                     /\ rdRec[a \o "." \o k] = rdObjs[a][k]
         /\ DOMAIN rdRec \subseteq
              DOMAIN rdOrig.rec \cup Flat("req") \cup Flat("res") \cup Flat("err")
    ELSE rdRec = rdOrig.rec /\ rdObjs = rdOrig.objs

\* C20 witness: the long mode has rendered a record with a field of the
\* user's and a req object that has a field beside url and method: the core
\* fields and req are gone from the record, url and method from the req
\* object, and `req.foo` is a field of the record.
C20_Witness ==
  /\ rdDone /\ opts.outputMode = OM_LONG
  /\ Has(rdOrig.rec, "req") /\ IsRef(rdOrig.rec["req"]) /\ Has(rdOrig.objs["req"], "foo")
  /\ Has(rdOrig.rec, "extra")
  /\ ~Has(rdRec, "msg") /\ ~Has(rdRec, "req") /\ Has(rdRec, "req.foo")
  /\ Has(rdRec, "extra")
  /\ DOMAIN rdObjs["req"] = {"foo"}

\* the fields with entries among the extras and the details of the line
ExtraKeys == {rdOut.extras[i].key : i \in 1..Len(rdOut.extras)}
DetailKeys == {rdOut.details[i].key : i \in 1..Len(rdOut.details)}

\* field k of the record given to emitRecord had another type than declared
Misshapen(k) == Has(rdOrig.rec, k) /\ rdOrig.rec[k] = WrongValue(k)

\* C21: for a valid record in which a well-known field (msg, time, src, req,
\* res, err) has another type than the declared one, the long and short
\* modes raise no error and render that field among the extras (or the
\* details, where long values go) instead of losing it.
C21_WrongShape ==
  rdDone =>
    /\ rdOut.form # "raised"
    /\ \A k \in ShapeFields : Misshapen(k) => k \in ExtraKeys \cup DetailKeys

\* the entries of a list pushed for field k
EntriesOf(list, k) == SelectSeq(list, LAMBDA e : e.key = k)

\* the record given to emitRecord had an err object with a stack
HadStack ==
  /\ Has(rdOrig.rec, "err") /\ IsRef(rdOrig.rec["err"])
  /\ Has(rdOrig.objs["err"], "stack") /\ Truthy(rdOrig.objs["err"]["stack"])

\* C23: in the long and short modes, for a record whose err is an object
\* with a stack: the stack, indented, is an entry of the details; the
\* leftover fields have no `err` entry, among the extras or the details;
\* message, name and stack do not come back, and every other field of the
\* err object is rendered as the leftover field `err.<field>` with its value.
C23_ErrStack ==
  (rdDone /\ rdOut.form = "text" /\ HadStack) =>
    /\ EntriesOf(rdOut.details, "err")
         = <<[key |-> "err", text |-> indent(rdOrig.objs["err"]["stack"].str)]>>
    /\ "err" \notin ExtraKeys
    /\ ~Has(rdRec, "err")
    /\ {"err.message", "err.name", "err.stack"} \cap (ExtraKeys \cup DetailKeys) = {}
    /\ \A k \in DOMAIN rdOrig.objs["err"] \ {"message", "name", "stack"} :
         /\ Has(rdRec, "err." \o k) /\ rdRec["err." \o k] = rdOrig.objs["err"][k]
         /\ ("err." \o k) \in ExtraKeys \cup DetailKeys

\* C23 witness: the long mode has rendered an err object with a stack and a
\* code: the details hold the stack and the extras hold `err.code=1`.
C23_Witness ==
  /\ rdDone /\ opts.outputMode = OM_LONG /\ HadStack
  /\ Has(rdOrig.objs["err"], "code")
  /\ \E i \in 1..Len(rdOut.details) : rdOut.details[i] = [key |-> "err", text |-> "    s"]
  /\ \E i \in 1..Len(rdOut.extras) :
       rdOut.extras[i] = [key |-> "err.code", text |-> "err.code=1"]

\* C24: in the long and short modes a message with a newline leaves the
\* inline message empty and is, whole and indented, an entry of the details;
\* a message without a newline is the inline message and no entry of the
\* details.
C24_MsgPlacement ==
  (rdDone /\ rdOut.form = "text") =>
    LET msg == rdOrig.rec["msg"].str
    IN  IF Contains(msg, "\n")
        THEN /\ rdOut.onelineMsg = ""
             /\ EntriesOf(rdOut.details, "msg") = <<[key |-> "msg", text |-> indent(msg)]>>
        ELSE /\ rdOut.onelineMsg = " " \o msg
             /\ "msg" \notin DetailKeys

\* C24 witness: the short mode has rendered the message of two lines: the
\* first entry of the details is the two lines, each indented.
C24_Witness ==
  /\ rdDone /\ opts.outputMode = OM_SHORT
  /\ rdOrig.rec["msg"] = Str("a\nb")
  /\ rdOut.onelineMsg = ""
  /\ rdOut.details # <<>>
  /\ rdOut.details[1] = [key |-> "msg", text |-> "    a\n    b"]

\* a string has a whitespace character
HasWhitespace(v) == \E c \in {" ", "\t", "\r", "\n"} : Contains(v, c)

\* C25: in the long and short modes every field left on the record goes to
\* exactly one place: to the details, as `key: value`, when its stringified
\* value has a newline or more than 50 characters; otherwise to the extras, as
\* `key=value`, the value JSON-quoted when it is a string that has
\* whitespace or is empty.
C25_Leftover ==
  (rdDone /\ rdOut.form = "text") =>
    \A k \in DOMAIN rdRec :
      LET v == IF IsStr(rdRec[k]) THEN rdRec[k].str ELSE JSONstringify(rdRec[k], rdObjs)
      IN  IF Contains(v, "\n") \/ Len(v) > 50
          THEN /\ EntriesOf(rdOut.details, k)
                    = <<[key |-> k, text |-> indent(k \o ": " \o v)]>>
               /\ k \notin ExtraKeys
          ELSE /\ EntriesOf(rdOut.extras, k)
                    = <<[key |-> k,
                         text |-> IF IsStr(rdRec[k]) /\ (HasWhitespace(v) \/ v = "")
                                  THEN k \o "=" \o Quote(v) ELSE k \o "=" \o v]>>
               /\ k \notin DetailKeys

\* some -c argument raises when it is evaluated on minValidRecord
RaisesOnMinimal ==
  \E i \in 1..Len(argConds) :
    argConds[i] \in Conds /\ EvalCond(argConds[i], minValidRecord) = "throw"

\* C22: a -c condition that raises on the minimal valid record is rejected
\* at startup in both modes of evaluation: parseArgv fails, the process ends
\* with status 1, and no line of the input has been processed.
C22_RejectedAtStartup ==
  (argDone /\ RaisesOnMinimal) =>
    (status = "exited" /\ exitCode = 1 /\ ~lnDone /\ sink = <<>>)

\* the lowest level among the streams of a non-empty array
MinLevel(ss) ==
  CHOOSE m \in {ss[j].level : j \in 1..Len(ss)} : \A j \in 1..Len(ss) : m <= ss[j].level

\* C26: after any sequence of addStream, level(v) and levels(name, v) calls,
\* level() of a logger is the lowest level among its streams.
C26_LowestLevel ==
  \A who \in Created : lgLevel[who] = MinLevel(lgStreams[lgArr[who]])

\* a call that sets a level of the child: child({level}), level(v), levels(name, v)
ChildSetsLevel == NewChild \/ SetLevel(Child) \/ SetLevels(Child)

\* C27: setting a level of a child, full or simple, leaves level() of the
\* parent and the level of every stream of the parent as they were.
C27_ParentUnchanged ==
  [][ChildSetsLevel =>
       (lgLevel'[Parent] = lgLevel[Parent]
          /\ lgStreams'[lgArr'[Parent]] = lgStreams[lgArr[Parent]])]_vars

\* the last n elements of q
LastN(q, n) == SubSeq(q, Len(q) - n + 1, Len(q))

\* C28: after n writes to a RingBuffer of limit N, `records` is the last
\* min(n, N) of the records written, in the order they were written.
C28_LastRecords ==
  rbRecords = LastN(rbHist, IF Len(rbHist) < rbLimit THEN Len(rbHist) ELSE rbLimit)

\* C28 witness: more records were written than the limit of 2, and
\* `records` is the last two, which differ.
C28_Witness ==
  /\ rbLimit = 2 /\ Len(rbHist) = 4
  /\ rbRecords = <<rbHist[3], rbHist[4]>>
  /\ rbHist[3] # rbHist[4] /\ rbHist[1] # rbHist[3]

\* C29: no record is popped and written while a registered source is
\* blocking: at every emission each source is done or holds a pending entry.
C29_NoBlockedEmission == ~blocked

\* C29 witness: records of both files were written while file 2 was not done
\* and file 1 still holds a pending entry.
C29_Witness ==
  /\ status = "running" /\ ~blocked
  /\ WrittenOf(1) # <<>> /\ WrittenOf(2) # <<>>
  /\ ~streams[1].done /\ ~streams[2].done
  /\ streams[1].records # <<>>

\* C30: for each source, the records written are a prefix of its surviving
\* records in the order of their arrival, whatever their timestamps, and the
\* rest are its pending entries in that order: none is written out of turn,
\* twice, or skipped.
C30_ArrivalOrder ==
  \A f \in Files :
    /\ IsPrefix(WrittenOf(f), surv[f])
    /\ WrittenOf(f) \o QueuedOf(f) = surv[f]

\* C30 witness: file 1 delivered a record of time 2 and then one of time 1,
\* and both were written in that order.
C30_Witness ==
  /\ surv[1] = <<2, 1>>
  /\ WrittenOf(1) = <<2, 1>>


\* ------------------------------------------------- the scheduler's returns
\* `ran` holds in the state a handler leaves when it entered emitNextRecord;
\* the handlers change no queue and no flag after emitNextRecord's last
\* return, so that state shows what emitNextRecord returned with.
SomeBlocking == \E f \in Files : Blocking(streams[f])

AllDrained == \A f \in Files : streams[f].done /\ streams[f].records = <<>>

\* C31: when emitNextRecord returns, some source is blocking or every source
\* is done with an empty queue: it does not return while every source is
\* ready and some queue holds an entry.
C31_DrainsMaximally == ran => (SomeBlocking \/ AllDrained)

\* C31 witness: emitNextRecord returned with the sink holding two records
\* it wrote, file 1 done and drained and file 2 blocking.
C31_Witness ==
  /\ ran /\ Len(sink) = 2
  /\ streams[1].done /\ streams[1].records = <<>>
  /\ Blocking(streams[2])

\* C38: when emitNextRecord returns, each source that is opened and not done
\* has its `paused` flag set exactly when its queue is not empty.
C38_PausedIffQueued ==
  ran => \A f \in Files :
           (streams[f].opened /\ ~streams[f].done)
             => (streams[f].paused <=> Len(streams[f].records) > 0)

\* C38 witness: emitNextRecord returned with file 1 paused on a queue of two
\* entries and file 2, paused and resumed before, without a flag or an entry.
C38_Witness ==
  /\ ran
  /\ ~streams[1].done /\ streams[1].paused /\ Len(streams[1].records) = 2
  /\ ~streams[2].done /\ ~streams[2].paused /\ streams[2].last = "resume"

\* C36: while the run goes on and some source is not done, some source that
\* is not done is not paused: a stream is left that can deliver a chunk or
\* its end.
C36_NoDeadlock ==
  (status = "running" /\ \E f \in Files : ~streams[f].done)
    => \E f \in Files : ~streams[f].done /\ ~streams[f].paused /\ streams[f].flowing

\* the entries given to gotRecord for file f in a step: the surviving
\* records of the chunk (with the partial line it completes) or of the
\* partial line that the end of data hands over
Survived(f) == Len(surv'[f]) - Len(surv[f])

\* C32: a source's queue grows only in a handler of that source's stream,
\* and after it holds no more entries than the chunk held surviving records;
\* a paused stream delivers nothing.
C32_BoundedByChunk ==
  [][\A f \in Files :
       /\ Survived(f) = 0 => Len(streams'[f].records) <= Len(streams[f].records)
       /\ Survived(f) > 0 => Len(streams'[f].records) <= Survived(f)]_vars

\* C32 witness: file 1 holds the two records of one chunk, paused behind
\* file 2, of which nothing has come.
C32_Witness ==
  /\ Len(streams[1].records) = 2 /\ Len(surv[1]) = 2 /\ nlines = 2
  /\ streams[1].paused /\ ~streams[1].flowing
  /\ surv[2] = <<>> /\ ~streams[2].done

\* ------------------------------------------------ the claims on log calls
\* the streams of the logger of the last call, after the call
OutStreams == lgStreams'[lgArr'[lgOut'.who]]

\* a call was made in this step and changed what the last call did
Called == lgOut' # lgOut /\ lgOut'.kind # "none" /\ lgOut'.kind # "fields"

\* C33: a log call at level L (a message, or an Error and a message) writes
\* the record to exactly the streams of the logger whose level is at most L,
\* and log.<level>() without arguments returns true exactly when such a
\* stream exists, after any level changes and addStream calls.
C33_WritesBelowLevel ==
  [][/\ Called =>
          \A i \in 1..Len(OutStreams) :
             (lgOut'.written[i] # "none") <=> (OutStreams[i].level <= lgOut'.minLevel)
     /\ (lgOut' # lgOut /\ lgOut'.kind = "none") =>
          ((lgOut'.returned = "true") <=>
             \E i \in 1..Len(OutStreams) : OutStreams[i].level <= lgOut'.minLevel)]_vars

\* the cached flag of a logger that has one is what its stream list gives
FlagAgrees ==
  \A g \in Created : lgHave[g] # "undefined" => lgHave[g] = NonRaw(StreamsOf(Lg, g))

\* C39: a non-raw stream is only ever written the string form of a record
\* and a raw stream only the record object, and the cached haveNonRawStreams
\* of every logger agrees with its stream list.
C39_FormByStream ==
  [][/\ lgOut' # lgOut =>
          \A i \in 1..Len(lgOut'.written) :
             lgOut'.written[i] \in
               {"none", IF OutStreams[i].raw THEN "object" ELSE "string"}
     /\ FlagAgrees']_vars

\* C34: no log call raises the exception of a serializer, and a call with
\* an Error as first argument that passes the level of its logger still
\* emits the record.
C34_SerializerNeverRaises ==
  /\ ~lgOut.raised
  /\ (lgOut.kind = "err" /\ lgLevel[lgOut.who] <= lgOut.minLevel) => lgOut.made

\* C37: every record written carries the level of the method that was
\* called and v equal to LOG_VERSION, whatever fields the caller supplies.
C37_LevelAndVersion ==
  lgOut.made => /\ lgOut.rec.level = Num(lgOut.minLevel)
                /\ lgOut.rec.v = Num(LOG_VERSION)

\* C35: no log call and no creation of a child changes which object is the
\* fields object of an existing logger, nor a field of that object.
C35_FieldsUnchanged ==
  [][\A g \in Loggers :
        lgFields[g] # 0 =>
          /\ lgFields'[g] = lgFields[g]
          /\ lgObjs'[lgFields[g]] = lgObjs[lgFields[g]]]_vars

\* a child was created with a field of its own and has logged a record that
\* carries the parent's fields, the child's field and a field of the caller
C35_Witness ==
  /\ lgChild # "none" /\ lgOut.who = Child /\ lgOut.made
  /\ Has(lgObjs[lgFields[Child]], "component")
  /\ ~Has(lgObjs[lgFields[Parent]], "component")
  /\ Has(lgOut.rec, "name") /\ Has(lgOut.rec, "component") /\ Has(lgOut.rec, "level")
  /\ ~Has(lgObjs[lgFields[Child]], "level")

=============================================================================
